---- MODULE Spec2Model ----
(***************************************************************************)
(* A model of the Selenium utility layer (selenium_tests/functions.py), of *)
(* the pytest fixtures (selenium_tests/conftest.py), of the login tests    *)
(* (selenium_tests/test_login_errors.py) and of the Robot keyword library  *)
(* (robot_tests/Resources/Libraries/BrowserKeywords.py) of the saucedemo   *)
(* UI test suite.                                                          *)
(*                                                                         *)
(* The browser, the WebDriver and the file system are the environment:     *)
(* every driver call may succeed or raise, the page may change between two *)
(* driver calls.  Each operation of the code is a small step machine whose *)
(* program counter is a variable; one specification per operation group:   *)
(*   SpecShot     take_screenshot                                          *)
(*   SpecClick    click_product_by_name                                    *)
(*   SpecProducts get_all_products and verify_product_exists, step by step *)
(*   SpecScenario test_login_scenarios                                     *)
(*   SpecUserTypes test_all_user_types_comprehensive                       *)
(*   SpecKeywords the keywords of BrowserKeywords, in any order            *)
(*   SpecFixture  the driver and logged_in_driver fixtures around a test   *)
(*   SpecWait     wait_for_element and the helpers built on a wait         *)
(*   SpecUtil     the remaining helpers, one driver call per step          *)
(* Strings are sequences of one-character strings.                         *)
(***************************************************************************)
EXTENDS Integers, Sequences, FiniteSets, TLC

VARIABLES
    \* ---- take_screenshot
    ts_pc,        \* "idle" | "mkdir" | "name" | "save" | "verify" | "done"
    ts_args,      \* [test_name, screenshot_type, session] of the running call
    ts_filename,  \* the local variable filename (<<>> before it is built)
    ts_result,    \* [kind |-> "none" | "return" | "raise", value |-> ...]
    ts_fault,     \* which step failed in the running call ("none" if none)
    ts_calls,     \* completed calls
    ts_trace,     \* the file system and driver steps of the running call: [op, dir]
    ts_writes,    \* the captures that wrote a file: [test_name, screenshot_type, ts, path]
    dirExists,    \* os.path.exists(screenshot_dir)
    files,        \* the paths of the files that exist
    clock,        \* the wall clock, in seconds (time.strftime reads it)
    \* ---- click_product_by_name
    cp_pc,        \* "idle" | "attempt" | "locate" | "next" | "direct" | "js" | "done"
    cp_args,      \* [product_name, retry_count] of the running call
    cp_todo,      \* the attempts the outer for loop has still to run
    cp_attempt,   \* the loop variable attempt (0 before the first)
    cp_products,  \* the list get_all_products returned in this attempt
    cp_i,         \* position of the inner for loop in cp_products
    cp_result,    \* [kind, value] as for take_screenshot
    cp_locates,   \* calls of get_all_products made by the running call
    cp_tries,     \* click strategies tried in the current attempt
    cp_elemTries, \* click strategies tried on the current product
    cp_clicks,    \* clicks that completed without error in the running call
    cp_log,       \* the steps of the current attempt: [op, elem, ok]
    cp_slept,     \* ticks slept (time.sleep) since the last click that failed
    cp_bothFailed, \* both clicks failed on a product since the last lookup
    \* ---- the fixtures of conftest.py around one test
    fx_pc,        \* position in the run of the current test ("idle" between tests)
    fx_test,      \* [uses_login]: does the test ask for logged_in_driver?
    fx_tests,     \* tests run so far
    fx_created,   \* browser sessions created so far (webdriver.Chrome returned)
    fx_quits,     \* calls of driver.quit() so far
    fx_yielded,   \* the driver fixture reached its yield (its teardown is due)
    fx_tdError,   \* the teardown code of the driver fixture raised
    fx_shots,     \* screenshot attempts of this test: [tag, by, session, taken]
    fx_session,   \* the browser session of this test: "none" | "open" | "quit"
    fx_loggedIn,  \* what is_logged_in returned in logged_in_driver ("none" before)
    fx_steps,     \* the driver fixture's setup steps of this test: [how, ok]
    rep_setup,    \* item.rep_setup: "absent" | "passed" | "failed"
    rep_call,     \* item.rep_call
    rep_teardown, \* item.rep_teardown
    \* ---- a wait (WebDriverWait.until) inside one of the wait helpers
    w_pc,         \* "idle" | "eval" | "blocked" | "sleep" | "return" | "text" | "done"
    w_helper,     \* the helper that is running
    w_arg,        \* its timeout argument: <<>> for None, <<t>> for t seconds
    w_timeout,    \* the timeout handed to WebDriverWait, in ticks
    w_elapsed,    \* ticks since the wait started
    w_blocked,    \* ticks the running element lookup has been blocked
    w_evals,      \* evaluations of the predicate so far
    w_found,      \* [value, evals, elapsed] at the evaluation that was true
    w_until,      \* how until ended: [kind |-> "none"|"value"|"timeout"|"error", error]
    w_text,       \* the text read from the error element (get_error_message)
    w_result,     \* [kind, value] as for take_screenshot
    page,         \* 0: the predicate is false now; k > 0: element k satisfies it
    \* ---- the helpers that are a fixed sequence of driver calls
    u_pc,         \* "idle" | "running" | "done"
    u_op,         \* the helper that is running
    u_step,       \* driver calls of the helper that have returned
    u_vals,       \* what the driver calls that read something have returned
    u_result,     \* [kind, value] as for take_screenshot
    \* ---- get_all_products, step by step
    gp_pc,        \* "idle" | "wait" | "list" | "items" | "done"
    gp_items,     \* the product items find_elements returned: [name, price]
    gp_i,         \* items the for loop has handled
    gp_products,  \* the local list products
    gp_skipped,   \* positions of the items whose parsing raised
    gp_fault,     \* the exception the wait or find_elements raised ("none" if none)
    gp_result,    \* [kind, value] as for take_screenshot
    \* ---- verify_product_exists
    vp_pc,        \* "idle" | "products" | "loop" | "done"
    vp_args,      \* [product_name, expected_price]
    vp_products,  \* the local list products
    vp_k,         \* products the for loop has compared
    vp_result,    \* [kind, value] as for take_screenshot
    \* ---- the login page under test_login_errors.py
    lp_page,      \* "login" | "inventory": the page the browser shows
    lp_shown,     \* the text of the error element of the login page, None if none
    \* ---- test_login_scenarios
    tl_pc,        \* "idle" | "get" | "close" | "login" | "url" | "error" |
                  \* "logged" | "verdict" | "post" | "done"
    tl_case,      \* position of test_case in LOGIN_ERRORS
    tl_current_url, \* the local current_url
    tl_error_text,  \* the local error_text
    tl_logged_in,   \* the local logged_in
    tl_failures,  \* the local list failures, as tags
    tl_outcome,   \* "none" | "passed" | "failed" (pytest.fail) | "error" (an exception)
    tl_shots,     \* FAIL screenshots asked for
    \* ---- test_all_user_types_comprehensive
    ut_pc,        \* "idle" | "loop" | "get" | "close" | "login" | "error" |
                  \* "logged" | "record" | "url" | "summary" | "done"
    ut_i,         \* position in USERS of the user type of this pass of the loop
    ut_error_text,  \* the local error_text
    ut_logged_in,   \* the local logged_in
    ut_results,   \* the dict results: user type -> "PASS" | "FAIL"
    ut_assigned,  \* assignments to results made
    ut_outcome,   \* "none" | "passed" | "failed" (pytest.fail) | "error" (an exception)
    ut_shots,     \* FAIL screenshots asked for
    \* ---- BrowserKeywords, the keyword library (one instance, scope GLOBAL)
    bk_driver,    \* self.driver: 0 for None, else the number of the session it refers to
    bk_created,   \* browser sessions webdriver.Chrome has created so far
    bk_live,      \* the sessions that exist (created and not ended)
    bk_wins,      \* windows the session of bk_driver has opened so far
    bk_windows,   \* its open windows (window_handles, in the order of opening)
    bk_current,   \* its current window handle, 0 if it has none
    bk_url,       \* the URL the session was last sent to, None if none
    bk_last       \* the last keyword: [kw, arg, held, created, nav, raised]

shotVars == <<ts_pc, ts_args, ts_filename, ts_result, ts_fault, ts_calls,
              ts_trace, ts_writes, dirExists, files, clock>>

clickVars == <<cp_pc, cp_args, cp_todo, cp_attempt, cp_products, cp_i, cp_result,
               cp_locates, cp_tries, cp_elemTries, cp_clicks, cp_log, cp_slept,
               cp_bothFailed>>

fixVars == <<fx_pc, fx_test, fx_tests, fx_created, fx_quits, fx_yielded,
             fx_tdError, fx_shots, fx_session, fx_loggedIn, fx_steps,
             rep_setup, rep_call, rep_teardown>>

waitVars == <<w_pc, w_helper, w_arg, w_timeout, w_elapsed, w_blocked, w_evals,
              w_found, w_until, w_text, w_result, page>>

utilVars == <<u_pc, u_op, u_step, u_vals, u_result>>

prodVars == <<gp_pc, gp_items, gp_i, gp_products, gp_skipped, gp_fault, gp_result>>

verifyVars == <<vp_pc, vp_args, vp_products, vp_k, vp_result>>

pageVars == <<lp_page, lp_shown>>

scenVars == <<tl_pc, tl_case, tl_current_url, tl_error_text, tl_logged_in,
              tl_failures, tl_outcome, tl_shots>>

userVars == <<ut_pc, ut_i, ut_error_text, ut_logged_in, ut_results, ut_assigned,
              ut_outcome, ut_shots>>

keywordVars == <<bk_driver, bk_created, bk_live, bk_wins, bk_windows, bk_current,
                 bk_url, bk_last>>

vars == <<shotVars, clickVars, fixVars, waitVars, utilVars, prodVars, verifyVars, pageVars, scenVars, userVars, keywordVars>>

\* ------------------------------------------------------------------ values

None == <<"None">>

NoResult == [kind |-> "none", value |-> None]
Return(v) == [kind |-> "return", value |-> v]
Raise(e) == [kind |-> "raise", value |-> <<e>>]

\* ------------------------------------------------------------------ bounds

MaxClock == 1
MaxCalls == 2
MaxRetry == 2
MaxItems == 2
MaxTests == 2
MaxTimeout == 2
MaxElem == 2
MaxSessions == 2
MaxWindows == 2

\* ------------------------------------------------------------- strings

RECURSIVE MapChars(_, _)
MapChars(s, from) ==
    IF s = <<>> THEN <<>>
    ELSE <<IF Head(s) \in from THEN "_" ELSE Head(s)>> \o MapChars(Tail(s), from)

\* test_name.replace("[", "_").replace("]", "_").replace("/", "_").replace("\\", "_")
clean_name(test_name) == MapChars(test_name, {"[", "]", "/", "\\"})

Digits == <<"0", "1", "2", "3", "4", "5", "6", "7", "8", "9">>

\* time.strftime("%Y%m%d_%H%M%S"): fixed width, one value per second
timestamp(c) == <<Digits[((c \div 10) % 10) + 1], Digits[(c % 10) + 1]>>

screenshot_dir == <<"s", "h", "o", "t", "s">>

\* the f-strings of take_screenshot: the type part is left out when it is empty
make_filename(test_name, screenshot_type, c) ==
    IF screenshot_type # <<>>
    THEN screenshot_dir \o <<"/">> \o clean_name(test_name) \o <<"_">>
         \o screenshot_type \o <<"_">> \o timestamp(c) \o <<".", "p", "n", "g">>
    ELSE screenshot_dir \o <<"/">> \o clean_name(test_name) \o <<"_">>
         \o timestamp(c) \o <<".", "p", "n", "g">>

\* ------------------------------------------------------- take_screenshot

TestNames == { <<"a">>, <<"a", "[", "b", "]">>, <<"a", "_", "b", "_">>, None }
ScreenshotTypes == { <<>>, <<"F">> }
Sessions == { "open", "closed" }

\* the handler of take_screenshot: print the error, return None
ts_except_reraise(e) == Raise(e)
ts_except(e) == Return(None)

\* the check after save_screenshot: the path if the file exists, else None
ts_verify_nocheck(filename, fs) == Return(filename)
ts_verify(filename, fs) ==
    IF filename \in fs THEN Return(filename) ELSE Return(None)

ts_Init ==
    /\ ts_pc = "idle"
    /\ ts_args = [test_name |-> None, screenshot_type |-> <<>>, session |-> "open"]
    /\ ts_filename = <<>>
    /\ ts_result = NoResult
    /\ ts_fault = "none"
    /\ ts_calls = 0
    /\ ts_trace = <<>>
    /\ ts_writes = {}
    /\ dirExists \in BOOLEAN
    /\ files = {}
    /\ clock = 0

\* a caller invokes take_screenshot(driver, test_name, screenshot_type)
ts_Call ==
    /\ ts_pc = "idle"
    /\ ts_calls < MaxCalls
    /\ \E n \in TestNames, t \in ScreenshotTypes, s \in Sessions :
          ts_args' = [test_name |-> n, screenshot_type |-> t, session |-> s]
    /\ ts_pc' = "mkdir"
    /\ ts_filename' = <<>>
    /\ ts_result' = NoResult
    /\ ts_fault' = "none"
    /\ ts_trace' = <<>>
    /\ UNCHANGED <<ts_calls, ts_writes, dirExists, files, clock>>

\* if not os.path.exists(screenshot_dir): is os.makedirs to be called?
ts_makedirs_never(exists) == FALSE
ts_makedirs_needed(exists) == ~exists

\* if not os.path.exists(screenshot_dir): os.makedirs(screenshot_dir)
ts_EnsureDir ==
    /\ ts_pc = "mkdir"
    /\ IF ts_makedirs_needed(dirExists)
       THEN \/ /\ dirExists' = TRUE
               /\ ts_pc' = "name"
               /\ ts_trace' = ts_trace \o <<[op |-> "exists", dir |-> dirExists],
                                            [op |-> "makedirs", dir |-> TRUE]>>
               /\ UNCHANGED <<ts_result, ts_fault>>
            \/ /\ ts_pc' = "done"        \* os.makedirs raises OSError
               /\ ts_result' = ts_except("OSError")
               /\ ts_fault' = "mkdir"
               /\ ts_trace' = ts_trace \o <<[op |-> "exists", dir |-> dirExists],
                                            [op |-> "makedirs", dir |-> dirExists]>>
               /\ UNCHANGED dirExists
       ELSE /\ ts_pc' = "name"
            /\ ts_trace' = Append(ts_trace, [op |-> "exists", dir |-> dirExists])
            /\ UNCHANGED <<dirExists, ts_result, ts_fault>>
    /\ UNCHANGED <<ts_args, ts_filename, ts_calls, ts_writes, files, clock>>

\* clean_name, timestamp and filename; a test_name that is no string raises
ts_BuildName ==
    /\ ts_pc = "name"
    /\ IF ts_args.test_name = None
       THEN /\ ts_pc' = "done"
            /\ ts_result' = ts_except("AttributeError")
            /\ ts_fault' = "name"
            /\ UNCHANGED ts_filename
       ELSE /\ ts_filename' = make_filename(ts_args.test_name,
                                            ts_args.screenshot_type, clock)
            /\ ts_pc' = "save"
            /\ UNCHANGED <<ts_result, ts_fault>>
    /\ UNCHANGED <<ts_args, ts_calls, ts_trace, ts_writes, dirExists, files, clock>>

\* driver.save_screenshot(filename): writes the file, or returns without
\* writing it (its result is not read), or raises; a closed session raises
ts_Save ==
    /\ ts_pc = "save"
    /\ \/ /\ ts_args.session = "open"
          /\ dirExists
          /\ files' = files \cup {ts_filename}
          /\ ts_writes' = ts_writes \cup
                {[test_name |-> ts_args.test_name,
                  screenshot_type |-> ts_args.screenshot_type,
                  ts |-> timestamp(clock), path |-> ts_filename]}
          /\ ts_pc' = "verify"
          /\ UNCHANGED <<ts_result, ts_fault>>
       \/ /\ ts_args.session = "open"
          /\ ts_pc' = "verify"
          /\ ts_fault' = "nowrite"
          /\ UNCHANGED <<files, ts_writes, ts_result>>
       \/ /\ ts_pc' = "done"
          /\ ts_result' = ts_except("WebDriverException")
          /\ ts_fault' = "save"
          /\ UNCHANGED <<files, ts_writes>>
    /\ ts_trace' = Append(ts_trace, [op |-> "save_screenshot", dir |-> dirExists])
    /\ UNCHANGED <<ts_args, ts_filename, ts_calls, dirExists, clock>>

\* if os.path.exists(filename): return filename  else: return None
ts_Verify ==
    /\ ts_pc = "verify"
    /\ ts_result' = ts_verify(ts_filename, files)
    /\ ts_pc' = "done"
    /\ UNCHANGED <<ts_args, ts_filename, ts_fault, ts_calls, ts_trace, ts_writes,
                   dirExists, files, clock>>

\* the call is over; the caller goes on
ts_Finish ==
    /\ ts_pc = "done"
    /\ ts_pc' = "idle"
    /\ ts_calls' = ts_calls + 1
    /\ UNCHANGED <<ts_args, ts_filename, ts_result, ts_fault, ts_trace, ts_writes,
                   dirExists, files, clock>>

\* a second passes between two calls
ts_Tick ==
    /\ ts_pc = "idle"
    /\ clock < MaxClock
    /\ clock' = clock + 1
    /\ UNCHANGED <<ts_pc, ts_args, ts_filename, ts_result, ts_fault, ts_calls,
                   ts_trace, ts_writes, dirExists, files>>

\* ------------------------------------------------------ get_all_products

Names == {"A", "B"}

Prices == {"$7.99", "$9.99"}

\* a product item of the page, by the texts of its name and price elements
Items == [name : Names, price : Prices]

\* the product items a page can list
Pages == UNION { [1..n -> Items] : n \in 0..MaxItems }

DriverErrors == {"StaleElementReferenceException", "WebDriverException"}

\* the outer handler of get_all_products: return []
gap_except(e) == <<>>

\* get_all_products: the items whose fields can all be read, in page order,
\* each with its 1-based position; bad is the set of items whose parsing
\* raises (they are skipped); listing is "ok" or the exception the wait or
\* find_elements raised.  An element is named by the lookup that located it
\* and its position.
get_all_products(listing, items, bad, lookup) ==
    LET F[i \in 0..Len(items)] ==
            IF i = 0 THEN <<>>
            ELSE IF i \in bad THEN F[i - 1]
            ELSE Append(F[i - 1], [name |-> items[i].name,
                                   price |-> items[i].price, index |-> i,
                                   name_link |-> <<lookup, i>>])
    IN IF listing = "ok" THEN F[Len(items)] ELSE gap_except(listing)

\* get_all_products step by step: the wait, find_elements, the loop over the
\* items, the return.  The image and the button of an item are elements that
\* nothing reads afterwards; they are modelled only as reads that can raise.

\* the element reads of one item, in the order of the dict display
ItemFields == <<"name", "price", "image", "add_button", "name_link">>

\* the handler inside the loop: print a warning and continue with the next item
gap_item_except_abort(e) == "raise"
gap_item_except(e) == "continue"

gp_Init ==
    /\ gp_pc = "idle"
    /\ gp_items = <<>>
    /\ gp_i = 0
    /\ gp_products = <<>>
    /\ gp_skipped = {}
    /\ gp_fault = "none"
    /\ gp_result = NoResult

\* a caller invokes get_all_products(driver)
gp_Call ==
    /\ gp_pc = "idle"
    /\ gp_pc' = "wait"
    /\ gp_items' = <<>>
    /\ gp_i' = 0
    /\ gp_products' = <<>>
    /\ gp_skipped' = {}
    /\ gp_fault' = "none"
    /\ gp_result' = NoResult

\* WebDriverWait(..).until(presence_of_all_elements_located(..)), then the
\* short sleep; a timeout or a driver exception goes to the outer handler
gp_Wait ==
    /\ gp_pc = "wait"
    /\ \/ /\ gp_pc' = "list"
          /\ UNCHANGED <<gp_fault, gp_result>>
       \/ \E e \in {"TimeoutException"} \cup DriverErrors :
             /\ gp_fault' = e
             /\ gp_result' = Return(gap_except(e))
             /\ gp_pc' = "done"
    /\ UNCHANGED <<gp_items, gp_i, gp_products, gp_skipped>>

\* products = []; items = driver.find_elements(..): the items the page lists
\* now, or a driver exception, which goes to the outer handler
gp_List ==
    /\ gp_pc = "list"
    /\ \/ /\ gp_items' \in Pages
          /\ gp_pc' = "items"
          /\ UNCHANGED <<gp_fault, gp_result>>
       \/ \E e \in DriverErrors :
             /\ gp_fault' = e
             /\ gp_result' = Return(gap_except(e))
             /\ gp_pc' = "done"
             /\ UNCHANGED gp_items
    /\ UNCHANGED <<gp_i, gp_products, gp_skipped>>

\* one pass of for index, item in enumerate(items, 1): the five reads and
\* products.append(product), or one of the reads raises
gp_Item ==
    /\ gp_pc = "items"
    /\ gp_i < Len(gp_items)
    /\ gp_i' = gp_i + 1
    /\ \/ /\ gp_products' = Append(gp_products,
                                    [name |-> gp_items[gp_i + 1].name,
                                     price |-> gp_items[gp_i + 1].price,
                                     index |-> gp_i + 1,
                                     name_link |-> <<1, gp_i + 1>>])
          /\ UNCHANGED <<gp_pc, gp_skipped, gp_fault, gp_result>>
       \/ \E f \in 1..Len(ItemFields), e \in DriverErrors :
             /\ gp_skipped' = gp_skipped \cup {gp_i + 1}
             /\ IF gap_item_except(e) = "continue"
                THEN UNCHANGED <<gp_pc, gp_result>>
                ELSE /\ gp_result' = Return(gap_except(e))
                     /\ gp_pc' = "done"
             /\ UNCHANGED <<gp_products, gp_fault>>
    /\ UNCHANGED gp_items

\* return products
gp_Return ==
    /\ gp_pc = "items"
    /\ gp_i = Len(gp_items)
    /\ gp_result' = Return(gp_products)
    /\ gp_pc' = "done"
    /\ UNCHANGED <<gp_items, gp_i, gp_products, gp_skipped, gp_fault>>

\* the call is over; the caller goes on
gp_Finish ==
    /\ gp_pc = "done"
    /\ gp_pc' = "idle"
    /\ UNCHANGED <<gp_items, gp_i, gp_products, gp_skipped, gp_fault, gp_result>>

\* ---------------------------------------------------- verify_product_exists

\* the test of the loop: product['name'] == product_name and
\* product['price'] == expected_price
vp_match_name_only(product, product_name, expected_price) ==
    product.name = product_name
vp_match(product, product_name, expected_price) ==
    product.name = product_name /\ product.price = expected_price

\* verify_product_exists as a function of the list get_all_products returned
verify_product_exists(products, product_name, expected_price) ==
    \E k \in 1..Len(products) : vp_match(products[k], product_name, expected_price)

vp_Init ==
    /\ vp_pc = "idle"
    /\ vp_args = [product_name |-> "A", expected_price |-> "$7.99"]
    /\ vp_products = <<>>
    /\ vp_k = 0
    /\ vp_result = NoResult

\* a caller invokes verify_product_exists(driver, product_name, expected_price),
\* which calls get_all_products(driver)
vp_Call ==
    /\ vp_pc = "idle"
    /\ gp_Call
    /\ \E n \in Names, p \in Prices :
          vp_args' = [product_name |-> n, expected_price |-> p]
    /\ vp_pc' = "products"
    /\ vp_products' = <<>>
    /\ vp_k' = 0
    /\ vp_result' = NoResult

\* products = get_all_products(driver): the call has returned
vp_Products ==
    /\ vp_pc = "products"
    /\ gp_pc = "done"
    /\ gp_pc' = "idle"
    /\ vp_products' = gp_result.value
    /\ vp_pc' = "loop"
    /\ UNCHANGED <<gp_items, gp_i, gp_products, gp_skipped, gp_fault, gp_result>>
    /\ UNCHANGED <<vp_args, vp_k, vp_result>>

\* one pass of for product in products: return True on a match
vp_Compare ==
    /\ vp_pc = "loop"
    /\ vp_k < Len(vp_products)
    /\ vp_k' = vp_k + 1
    /\ IF vp_match(vp_products[vp_k + 1], vp_args.product_name,
                   vp_args.expected_price)
       THEN vp_result' = Return(TRUE) /\ vp_pc' = "done"
       ELSE UNCHANGED <<vp_result, vp_pc>>
    /\ UNCHANGED <<vp_args, vp_products, prodVars>>

\* the loop is over without a match: return False
vp_Return ==
    /\ vp_pc = "loop"
    /\ vp_k = Len(vp_products)
    /\ vp_result' = Return(FALSE)
    /\ vp_pc' = "done"
    /\ UNCHANGED <<vp_args, vp_products, vp_k, prodVars>>

\* the call is over; the caller goes on
vp_Finish ==
    /\ vp_pc = "done"
    /\ vp_pc' = "idle"
    /\ UNCHANGED <<vp_args, vp_products, vp_k, vp_result, prodVars>>

\* One tick is one poll interval of WebDriverWait (half a second).
TicksPerSecond == 2

\* CONFIG["timeouts"]["short_sleep"], half a second, in ticks
short_sleep_ticks == 1

\* CONFIG["timeouts"]["medium_sleep"], in seconds
medium_sleep == 1

\* the ticks get_all_products can sleep: time.sleep(short_sleep) after a wait
\* that passed; nothing when the wait raised, the same when find_elements did
gap_slept(listing) ==
    IF listing = "ok" THEN {short_sleep_ticks} ELSE {0, short_sleep_ticks}

\* ------------------------------------------------- click_product_by_name

\* for attempt in range(1, retry_count + 1)
attempt_range_from_zero(retry_count) == [k \in 1..(retry_count + 1) |-> k - 1]
attempt_range(retry_count) == [k \in 1..retry_count |-> k]

\* products = get_all_products(driver): the list the attempt works on is the
\* one just queried, never the one of an earlier attempt
cp_requery_reuse(old, fresh) == IF old # <<>> THEN old ELSE fresh
cp_requery(old, fresh) == fresh

\* except Exception around the standard click: go on with the JavaScript click
cp_direct_except(e) == "js"

\* except Exception around the JavaScript click: go on with the next product
cp_js_except_reraise(e) == "raise"
cp_js_except(e) == "continue"

\* the test of the inner loop: product['name'] == product_name
cp_name_matches_any(product, product_name) == TRUE
cp_name_matches(product, product_name) == product.name = product_name

\* after a click that did not raise: the sleep, then return True
cp_after_click_continue == "continue"
cp_after_click == "return"

Matching(products, product_name) ==
    { k \in 1..Len(products) : products[k].name = product_name }

cp_Init ==
    /\ cp_pc = "idle"
    /\ cp_args = [product_name |-> "A", retry_count |-> 0]
    /\ cp_todo = <<>>
    /\ cp_attempt = 0
    /\ cp_products = <<>>
    /\ cp_i = 0
    /\ cp_result = NoResult
    /\ cp_locates = 0
    /\ cp_tries = 0
    /\ cp_elemTries = 0
    /\ cp_clicks = 0
    /\ cp_log = <<>>
    /\ cp_slept = 0
    /\ cp_bothFailed = FALSE

\* a caller invokes click_product_by_name(driver, product_name, retry_count)
cp_Call ==
    /\ cp_pc = "idle"
    /\ \E n \in Names, r \in 0..MaxRetry :
          /\ cp_args' = [product_name |-> n, retry_count |-> r]
          /\ cp_todo' = attempt_range(r)
    /\ cp_pc' = "attempt"
    /\ cp_attempt' = 0
    /\ cp_products' = <<>>
    /\ cp_i' = 0
    /\ cp_result' = NoResult
    /\ cp_locates' = 0
    /\ cp_tries' = 0
    /\ cp_elemTries' = 0
    /\ cp_clicks' = 0
    /\ cp_log' = <<>>
    /\ cp_slept' = 0
    /\ cp_bothFailed' = FALSE

\* the head of the outer loop: the next attempt, or return False after the last
cp_NextAttempt ==
    /\ cp_pc = "attempt"
    /\ IF cp_todo # <<>>
       THEN /\ cp_attempt' = Head(cp_todo)
            /\ cp_todo' = Tail(cp_todo)
            /\ cp_pc' = "locate"
            /\ UNCHANGED cp_result
       ELSE /\ cp_pc' = "done"
            /\ cp_result' = Return(FALSE)
            /\ UNCHANGED <<cp_attempt, cp_todo>>
    /\ UNCHANGED <<cp_args, cp_products, cp_i, cp_locates, cp_tries,
                   cp_elemTries, cp_clicks, cp_log, cp_slept, cp_bothFailed>>

\* products = get_all_products(driver), on the page as it is now
cp_Locate ==
    /\ cp_pc = "locate"
    /\ \E listing \in {"ok"} \cup DriverErrors, items \in Pages :
          \E bad \in SUBSET (1..Len(items)) :
             /\ cp_products' =
                   cp_requery(cp_products,
                              get_all_products(listing, items, bad, cp_locates + 1))
             /\ \E t \in gap_slept(listing) : cp_slept' = cp_slept + t
    /\ cp_log' = <<[op |-> "locate", elem |-> <<cp_locates + 1, 0>>, ok |-> TRUE]>>
    /\ cp_bothFailed' = FALSE
    /\ cp_locates' = cp_locates + 1
    /\ cp_i' = 0
    /\ cp_tries' = 0
    /\ cp_elemTries' = 0
    /\ cp_pc' = "next"
    /\ UNCHANGED <<cp_args, cp_todo, cp_attempt, cp_result, cp_clicks>>

\* the head of the inner loop: for product in products, if the name matches
cp_NextProduct ==
    /\ cp_pc = "next"
    /\ IF cp_i < Len(cp_products)
       THEN /\ cp_i' = cp_i + 1
            /\ cp_pc' = IF cp_name_matches(cp_products[cp_i + 1], cp_args.product_name)
                        THEN "direct" ELSE "next"
       ELSE /\ cp_pc' = "attempt"
            /\ UNCHANGED cp_i
    /\ cp_elemTries' = 0
    /\ UNCHANGED <<cp_args, cp_todo, cp_attempt, cp_products, cp_result,
                   cp_locates, cp_tries, cp_clicks, cp_log, cp_slept, cp_bothFailed>>

\* product['name_link'].click(), then the sleep and return True
cp_Direct ==
    /\ cp_pc = "direct"
    /\ cp_tries' = cp_tries + 1
    /\ cp_elemTries' = cp_elemTries + 1
    /\ \/ /\ cp_clicks' = cp_clicks + 1
          /\ cp_log' = Append(cp_log, [op |-> "direct", ok |-> TRUE,
                                       elem |-> cp_products[cp_i].name_link])
          /\ cp_slept' = cp_slept + medium_sleep * TicksPerSecond
          /\ IF cp_after_click = "return"
             THEN cp_result' = Return(TRUE) /\ cp_pc' = "done"
             ELSE cp_pc' = "next" /\ UNCHANGED cp_result
       \/ \E e \in DriverErrors :
             /\ cp_pc' = cp_direct_except(e)
             /\ cp_log' = Append(cp_log, [op |-> "direct", ok |-> FALSE,
                                          elem |-> cp_products[cp_i].name_link])
             /\ cp_slept' = 0
             /\ UNCHANGED <<cp_clicks, cp_result>>
    /\ UNCHANGED <<cp_args, cp_todo, cp_attempt, cp_products, cp_i, cp_locates,
                   cp_bothFailed>>

\* driver.execute_script("arguments[0].click();", product['name_link'])
cp_Js ==
    /\ cp_pc = "js"
    /\ cp_tries' = cp_tries + 1
    /\ cp_elemTries' = cp_elemTries + 1
    /\ \/ /\ cp_clicks' = cp_clicks + 1
          /\ cp_log' = Append(cp_log, [op |-> "js", ok |-> TRUE,
                                       elem |-> cp_products[cp_i].name_link])
          /\ cp_slept' = cp_slept + medium_sleep * TicksPerSecond
          /\ IF cp_after_click = "return"
             THEN cp_result' = Return(TRUE) /\ cp_pc' = "done"
             ELSE cp_pc' = "next" /\ UNCHANGED cp_result
          /\ UNCHANGED cp_bothFailed
       \/ \E e \in DriverErrors :
             /\ cp_log' = Append(cp_log, [op |-> "js", ok |-> FALSE,
                                          elem |-> cp_products[cp_i].name_link])
             /\ cp_slept' = 0
             /\ cp_bothFailed' = TRUE
             /\ IF cp_js_except(e) = "continue"
                THEN /\ cp_pc' = "next"
                     /\ UNCHANGED <<cp_clicks, cp_result>>
                ELSE /\ cp_pc' = "done"
                     /\ cp_result' = Raise(e)
                     /\ UNCHANGED cp_clicks
    /\ UNCHANGED <<cp_args, cp_todo, cp_attempt, cp_products, cp_i, cp_locates>>

\* the call is over; the caller goes on
cp_Finish ==
    /\ cp_pc = "done"
    /\ cp_pc' = "idle"
    /\ UNCHANGED <<cp_args, cp_todo, cp_attempt, cp_products, cp_i, cp_result,
                   cp_locates, cp_tries, cp_elemTries, cp_clicks, cp_log, cp_slept,
                   cp_bothFailed>>

\* ------------------------------------------------- conftest.py: fixtures

\* The run of one test by pytest: the setup phase (the driver fixture up to
\* its yield, then logged_in_driver if the test asks for it), the call phase
\* (only after a setup that passed), the teardown phase (the code after the
\* yield of every fixture that reached its yield).  pytest_runtest_makereport
\* stores rep_<when> when the phase is over.

fx_Init ==
    /\ fx_pc = "idle"
    /\ fx_test = [uses_login |-> FALSE]
    /\ fx_tests = 0
    /\ fx_created = 0
    /\ fx_quits = 0
    /\ fx_yielded = FALSE
    /\ fx_tdError = FALSE
    /\ fx_shots = {}
    /\ fx_session = "none"
    /\ fx_loggedIn = "none"
    /\ fx_steps = <<>>
    /\ rep_setup = "absent"
    /\ rep_call = "absent"
    /\ rep_teardown = "absent"

\* a step of the setup phase raised: the phase fails, the teardown phase follows
fx_SetupFails ==
    /\ rep_setup' = "failed"
    /\ fx_pc' = "teardown"

\* pytest starts the next test: a fresh item; auto_screenshot_on_failure
\* (autouse, so set up first) yields at once, then the driver fixture is entered
fx_StartTest ==
    /\ fx_pc = "idle"
    /\ fx_tests < MaxTests
    /\ \E u \in BOOLEAN : fx_test' = [uses_login |-> u]
    /\ fx_pc' = "init_auto"
    /\ fx_yielded' = FALSE
    /\ fx_tdError' = FALSE
    /\ fx_shots' = {}
    /\ rep_setup' = "absent"
    /\ rep_call' = "absent"
    /\ rep_teardown' = "absent"
    /\ fx_session' = "none"
    /\ fx_loggedIn' = "none"
    /\ fx_steps' = <<>>
    /\ UNCHANGED <<fx_tests, fx_created, fx_quits>>

\* the two ways the driver fixture initialises the WebDriver, in the order of
\* the try and its except handler: webdriver-manager, then the system driver
init_order_swapped == <<"system", "auto">>
init_order == <<"auto", "system">>

\* Service(ChromeDriverManager(...).install()); webdriver.Chrome(service, options)
fx_InitAuto ==
    /\ fx_pc = "init_auto"
    /\ \/ /\ fx_created' = fx_created + 1
          /\ fx_session' = "open"
          /\ fx_pc' = "implicitly_wait"
       \/ /\ fx_pc' = "init_fallback"
          /\ UNCHANGED <<fx_created, fx_session>>
    /\ fx_steps' = Append(fx_steps, [how |-> init_order[1], ok |-> fx_session' = "open"])
    /\ UNCHANGED <<fx_loggedIn, fx_test, fx_tests, fx_quits, fx_yielded, fx_tdError, fx_shots,
                   rep_setup, rep_call, rep_teardown>>

\* except Exception: webdriver.Chrome(options=options), or raise
fx_InitFallback ==
    /\ fx_pc = "init_fallback"
    /\ \/ /\ fx_created' = fx_created + 1
          /\ fx_session' = "open"
          /\ fx_pc' = "implicitly_wait"
          /\ UNCHANGED rep_setup
       \/ /\ fx_SetupFails
          /\ UNCHANGED <<fx_created, fx_session>>
    /\ fx_steps' = Append(fx_steps, [how |-> init_order[2], ok |-> fx_session' = "open"])
    /\ UNCHANGED <<fx_loggedIn, fx_test, fx_tests, fx_quits, fx_yielded, fx_tdError, fx_shots,
                   rep_call, rep_teardown>>

\* driver.implicitly_wait(implicit_wait_time): a driver command, outside any try
fx_ImplicitlyWait ==
    /\ fx_pc = "implicitly_wait"
    /\ \/ /\ fx_pc' = "maximize_window"
          /\ fx_steps' = Append(fx_steps, [how |-> "implicitly_wait", ok |-> TRUE])
          /\ UNCHANGED rep_setup
       \/ /\ fx_SetupFails
          /\ fx_steps' = Append(fx_steps, [how |-> "implicitly_wait", ok |-> FALSE])
    /\ UNCHANGED <<fx_session, fx_loggedIn, fx_test, fx_tests, fx_created, fx_quits, fx_yielded, fx_tdError,
                   fx_shots, rep_call, rep_teardown>>

\* driver.maximize_window(): a driver command, outside any try
fx_MaximizeWindow ==
    /\ fx_pc = "maximize_window"
    /\ \/ /\ fx_pc' = "yield"
          /\ fx_steps' = Append(fx_steps, [how |-> "maximize_window", ok |-> TRUE])
          /\ UNCHANGED rep_setup
       \/ /\ fx_SetupFails
          /\ fx_steps' = Append(fx_steps, [how |-> "maximize_window", ok |-> FALSE])
    /\ UNCHANGED <<fx_session, fx_loggedIn, fx_test, fx_tests, fx_created, fx_quits, fx_yielded, fx_tdError,
                   fx_shots, rep_call, rep_teardown>>

\* the capabilities are logged (a local read), then: yield driver
fx_Yield ==
    /\ fx_pc = "yield"
    /\ fx_yielded' = TRUE
    /\ IF fx_test.uses_login
       THEN /\ fx_pc' = "login_get"
            /\ UNCHANGED rep_setup
       ELSE /\ fx_pc' = "call"
            /\ rep_setup' = "passed"
    /\ UNCHANGED <<fx_steps, fx_session, fx_loggedIn, fx_test, fx_tests, fx_created, fx_quits, fx_tdError, fx_shots,
                   rep_call, rep_teardown>>

\* logged_in_driver: driver.get(URLS["login"])
fx_LoginGet ==
    /\ fx_pc = "login_get"
    /\ \/ /\ fx_pc' = "login_submit"
          /\ UNCHANGED rep_setup
       \/ fx_SetupFails
    /\ UNCHANGED <<fx_steps, fx_session, fx_loggedIn, fx_test, fx_tests, fx_created, fx_quits, fx_yielded, fx_tdError,
                   fx_shots, rep_call, rep_teardown>>

\* logged_in_driver: login(driver, username, password), which catches nothing
fx_LoginSubmit ==
    /\ fx_pc = "login_submit"
    /\ \/ /\ fx_pc' = "login_check"
          /\ UNCHANGED rep_setup
       \/ fx_SetupFails
    /\ UNCHANGED <<fx_steps, fx_session, fx_loggedIn, fx_test, fx_tests, fx_created, fx_quits, fx_yielded, fx_tdError,
                   fx_shots, rep_call, rep_teardown>>

\* a screenshot attempt of a fixture; taken: take_screenshot was called
Shot(tag, by, taken) ==
    [tag |-> tag, by |-> by, session |-> fx_session, taken |-> taken]

\* logged_in_driver: the branch taken on the value of is_logged_in(driver)
lid_branch_ignore(r) == "return"
lid_branch(r) == IF r = "true" THEN "return" ELSE "else"

\* logged_in_driver: if is_logged_in(driver): print the current URL (a driver
\* command, outside any try) and return driver; is_logged_in passes on a
\* driver exception that is no timeout
fx_LoginCheck ==
    /\ fx_pc = "login_check"
    /\ \E r \in {"true", "false", "raised"} :
          /\ fx_loggedIn' = r
          /\ CASE r = "raised" -> fx_SetupFails
               [] r # "raised" /\ lid_branch(r) = "return" ->
                     \/ /\ fx_pc' = "call"           \* return driver
                        /\ rep_setup' = "passed"
                     \/ fx_SetupFails                \* driver.current_url raises
               [] OTHER ->
                     /\ fx_pc' = "login_failed"
                     /\ UNCHANGED rep_setup
    /\ UNCHANGED <<fx_steps, fx_session, fx_test, fx_tests, fx_created, fx_quits,
                   fx_yielded, fx_tdError, fx_shots, rep_call, rep_teardown>>

\* logged_in_driver, else branch: take_screenshot(.., "AUTH_FAIL"), the
\* diagnostics (which may raise), raise Exception
fx_LoginFailed ==
    /\ fx_pc = "login_failed"
    /\ fx_shots' = fx_shots \cup {Shot("AUTH_FAIL", "logged_in_driver", TRUE)}
    /\ fx_SetupFails
    /\ UNCHANGED <<fx_steps, fx_session, fx_loggedIn, fx_test, fx_tests, fx_created,
                   fx_quits, fx_yielded, fx_tdError, rep_call, rep_teardown>>

\* the call phase: the test body passes or fails; rep_call is stored
fx_Call ==
    /\ fx_pc = "call"
    /\ rep_call' \in {"passed", "failed"}
    /\ fx_pc' = "teardown"
    /\ UNCHANGED <<fx_steps, fx_session, fx_loggedIn, fx_test, fx_tests, fx_created,
                   fx_quits, fx_yielded, fx_tdError, fx_shots, rep_setup,
                   rep_teardown>>

\* the teardown phase starts, the fixtures are finalised in the reverse order
\* of their setup: the driver fixture resumes after its yield, if it reached
\* it, then auto_screenshot_on_failure does
fx_Teardown ==
    /\ fx_pc = "teardown"
    /\ fx_pc' = IF fx_yielded THEN "td_check" ELSE "auto"
    /\ UNCHANGED <<fx_steps, fx_session, fx_loggedIn, fx_test, fx_tests, fx_created,
                   fx_quits, fx_yielded, fx_tdError, fx_shots, rep_setup, rep_call,
                   rep_teardown>>

\* hasattr(request.node, 'rep_call') and request.node.rep_call.failed
fx_call_failed_always(rc) == TRUE
fx_call_failed(rc) == rc = "failed"

\* if <the call failed>: take_screenshot(driver, test_name, "FAIL")
fx_TdCheck ==
    /\ fx_pc = "td_check"
    /\ IF fx_call_failed(rep_call)
       THEN /\ fx_shots' = fx_shots \cup {Shot("FAIL", "driver", TRUE)}
            /\ fx_pc' = "td_current_url"
       ELSE /\ fx_pc' = "td_quit"
            /\ UNCHANGED fx_shots
    /\ UNCHANGED <<fx_steps, fx_session, fx_loggedIn, fx_test, fx_tests, fx_created,
                   fx_quits, fx_yielded, fx_tdError, rep_setup, rep_call,
                   rep_teardown>>

\* print(f"Final URL: {driver.current_url}"): a driver command, outside any try
fx_TdCurrentUrl ==
    /\ fx_pc = "td_current_url"
    /\ \/ /\ fx_pc' = "td_title"
          /\ UNCHANGED fx_tdError
       \/ /\ fx_pc' = "auto"
          /\ fx_tdError' = TRUE
    /\ UNCHANGED <<fx_steps, fx_session, fx_loggedIn, fx_test, fx_tests, fx_created,
                   fx_quits, fx_yielded, fx_shots, rep_setup, rep_call, rep_teardown>>

\* print(f"Page title: {driver.title}"), outside any try; then page_source,
\* whose exception is caught
fx_TdTitle ==
    /\ fx_pc = "td_title"
    /\ \/ /\ fx_pc' = "td_quit"
          /\ UNCHANGED fx_tdError
       \/ /\ fx_pc' = "auto"
          /\ fx_tdError' = TRUE
    /\ UNCHANGED <<fx_steps, fx_session, fx_loggedIn, fx_test, fx_tests, fx_created,
                   fx_quits, fx_yielded, fx_shots, rep_setup, rep_call, rep_teardown>>

\* driver.quit(), which may itself raise after it was called
fx_TdQuit ==
    /\ fx_pc = "td_quit"
    /\ fx_quits' = fx_quits + 1
    /\ fx_session' = "quit"
    /\ fx_tdError' \in BOOLEAN
    /\ fx_pc' = "auto"
    /\ UNCHANGED <<fx_steps, fx_loggedIn, fx_test, fx_tests, fx_created, fx_yielded,
                   fx_shots, rep_setup, rep_call, rep_teardown>>

\* auto_screenshot_on_failure after its yield: the if / elif chain over the
\* reports; a report that is not stored yet fails the hasattr test
auto_branch_dup(rs, rc, rt) ==
    IF rs = "failed" THEN "SETUP_FAIL"
    ELSE IF rc = "failed" THEN "FAIL"
    ELSE IF rt = "failed" THEN "TEARDOWN_FAIL"
    ELSE "none"
auto_branch(rs, rc, rt) ==
    IF rs = "failed" THEN "SETUP_FAIL"
    ELSE IF rc = "failed" THEN "none"
    ELSE IF rt = "failed" THEN "TEARDOWN_FAIL"
    ELSE "none"

\* _capture_failure_screenshot: is take_screenshot called?  getfixturevalue
\* raises for a driver fixture whose setup failed (the handler goes on, no
\* driver is found); for one that is already finalised pytest raises as well
\* or hands out the finalised driver
cfs_taken(yielded) == IF yielded THEN BOOLEAN ELSE {FALSE}

\* the code of auto_screenshot_on_failure after its yield: it runs in the
\* teardown phase, after the driver fixture was finalised
fx_AutoCheck ==
    /\ fx_pc = "auto"
    /\ LET tag == auto_branch(rep_setup, rep_call, rep_teardown) IN
          IF tag = "none"
          THEN UNCHANGED fx_shots
          ELSE \E taken \in cfs_taken(fx_yielded) :
                  fx_shots' = fx_shots \cup
                      {Shot(tag, "auto_screenshot_on_failure", taken)}
    /\ fx_pc' = "td_end"
    /\ UNCHANGED <<fx_steps, fx_session, fx_loggedIn, fx_test, fx_tests, fx_created,
                   fx_quits, fx_yielded, fx_tdError, rep_setup, rep_call,
                   rep_teardown>>

\* the teardown phase is over; rep_teardown is stored and the test is finished
fx_TdEnd ==
    /\ fx_pc = "td_end"
    /\ rep_teardown' = IF fx_tdError THEN "failed" ELSE "passed"
    /\ fx_pc' = "finished"
    /\ UNCHANGED <<fx_steps, fx_session, fx_loggedIn, fx_test, fx_tests, fx_created, fx_quits, fx_yielded, fx_tdError,
                   fx_shots, rep_setup, rep_call>>

\* pytest goes on with the next test
fx_NextTest ==
    /\ fx_pc = "finished"
    /\ fx_pc' = "idle"
    /\ fx_tests' = fx_tests + 1
    /\ UNCHANGED <<fx_steps, fx_session, fx_loggedIn, fx_test, fx_created, fx_quits, fx_yielded, fx_tdError,
                   fx_shots, rep_setup, rep_call, rep_teardown>>

\* ------------------------------------------------------------ the waits

\* CONFIG["timeouts"], in seconds
implicit_wait == 5
explicit_wait_short == 5
explicit_wait_long == 10

NoArg == <<>>

Whitespace == {" ", "\t", "\n"}

RECURSIVE lstrip(_)
lstrip(s) == IF s # <<>> /\ Head(s) \in Whitespace THEN lstrip(Tail(s)) ELSE s

RECURSIVE rstrip(_)
rstrip(s) ==
    IF s # <<>> /\ s[Len(s)] \in Whitespace
    THEN rstrip(SubSeq(s, 1, Len(s) - 1)) ELSE s

\* str.strip()
strip(s) == rstrip(lstrip(s))

Texts == { <<"E">>, <<" ", "E", " ", "x", "\n">>, <<" ">> }

Helpers == {"wait_for_element", "is_element_present", "is_logged_in",
            "get_error_message"}

\* the predicates that look an element up (and so wait implicitly for it);
\* EC.url_contains only reads the current URL
LooksUpElement(h) == h # "is_logged_in"

\* wait_for_element / is_element_present: if timeout is None: explicit_wait_short
wfe_timeout(arg) == IF arg = NoArg THEN explicit_wait_short ELSE arg[1]

\* is_logged_in: if timeout is None: explicit_wait_long
ili_timeout_short(arg) == IF arg = NoArg THEN explicit_wait_short ELSE arg[1]
ili_timeout(arg) == IF arg = NoArg THEN explicit_wait_long ELSE arg[1]

\* get_error_message: always explicit_wait_short
gem_timeout == explicit_wait_short

helper_timeout(h, arg) ==
    CASE h \in {"wait_for_element", "is_element_present"} -> wfe_timeout(arg)
      [] h = "is_logged_in" -> ili_timeout(arg)
      [] h = "get_error_message" -> gem_timeout

NoUntil == [kind |-> "none", error |-> ""]
NotFound == [value |-> 0, evals |-> 0, elapsed |-> 0]

\* wait_for_element: return WebDriverWait(driver, timeout).until(...): the
\* value until returned, an exception of until passed on
wfe_result_relookup(u, found, pageNow) ==
    CASE u.kind = "value" -> Return(pageNow)
      [] u.kind = "timeout" -> Raise("TimeoutException")
      [] OTHER -> Raise(u.error)
wfe_result(u, found, pageNow) ==
    CASE u.kind = "value" -> Return(found)
      [] u.kind = "timeout" -> Raise("TimeoutException")
      [] OTHER -> Raise(u.error)

\* is_element_present: True after wait_for_element, except TimeoutException: False
iep_result(u) ==
    CASE u.kind = "value" -> Return(TRUE)
      [] u.kind = "timeout" -> Return(FALSE)
      [] OTHER -> Raise(u.error)

\* is_logged_in: True after the wait, except TimeoutException: False
ili_result(u) ==
    CASE u.kind = "value" -> Return(TRUE)
      [] u.kind = "timeout" -> Return(FALSE)
      [] OTHER -> Raise(u.error)

\* get_error_message: except TimeoutException: return None
gem_except_reraise(u) ==
    CASE u.kind = "timeout" -> Raise("TimeoutException")
      [] OTHER -> Raise(u.error)
gem_except(u) ==
    CASE u.kind = "timeout" -> Return(None)
      [] OTHER -> Raise(u.error)

w_Init ==
    /\ w_pc = "idle"
    /\ w_helper = "wait_for_element"
    /\ w_arg = NoArg
    /\ w_timeout = 0
    /\ w_elapsed = 0
    /\ w_blocked = 0
    /\ w_evals = 0
    /\ w_found = NotFound
    /\ w_until = NoUntil
    /\ w_text = <<>>
    /\ w_result = NoResult
    /\ page = 0

\* a caller invokes one of the helpers; the helper starts its wait
w_Call ==
    /\ w_pc = "idle"
    /\ \E h \in Helpers :
          \E a \in IF h = "get_error_message" THEN {NoArg}
                   ELSE {NoArg} \cup { <<t>> : t \in 1..MaxTimeout } :
             /\ w_helper' = h
             /\ w_arg' = a
             /\ w_timeout' = helper_timeout(h, a) * TicksPerSecond
    /\ page' \in 0..MaxElem
    /\ w_pc' = "eval"
    /\ w_elapsed' = 0
    /\ w_blocked' = 0
    /\ w_evals' = 0
    /\ w_found' = NotFound
    /\ w_until' = NoUntil
    /\ w_text' = <<>>
    /\ w_result' = NoResult

\* until: value = method(driver).  A true value ends the wait; an absent
\* element makes the lookup block (the driver's implicit wait); NoSuchElement
\* is ignored by until, any other exception leaves it
w_Eval ==
    /\ w_pc = "eval"
    /\ w_evals' = w_evals + 1
    /\ \/ /\ page # 0
          /\ w_found' = [value |-> page, evals |-> w_evals + 1, elapsed |-> w_elapsed]
          /\ w_until' = [kind |-> "value", error |-> ""]
          /\ w_pc' = "return"
          /\ UNCHANGED w_blocked
       \/ /\ page = 0
          /\ w_pc' = IF LooksUpElement(w_helper) THEN "blocked" ELSE "sleep"
          /\ w_blocked' = 0
          /\ UNCHANGED <<w_found, w_until>>
       \/ \E e \in DriverErrors :
             /\ w_until' = [kind |-> "error", error |-> e]
             /\ w_pc' = "return"
             /\ UNCHANGED <<w_found, w_blocked>>
    /\ UNCHANGED <<w_helper, w_arg, w_timeout, w_elapsed, w_text, w_result, page>>

\* the element lookup is blocked for one more tick: it returns when the
\* element appears and gives up after implicit_wait seconds
w_Block ==
    /\ w_pc = "blocked"
    /\ w_elapsed' = w_elapsed + 1
    /\ w_blocked' = w_blocked + 1
    /\ page' \in 0..MaxElem
    /\ IF page' # 0
       THEN /\ w_found' = [value |-> page', evals |-> w_evals, elapsed |-> w_elapsed']
            /\ w_until' = [kind |-> "value", error |-> ""]
            /\ w_pc' = "return"
       ELSE /\ w_pc' = IF w_blocked' >= implicit_wait * TicksPerSecond
                       THEN "sleep" ELSE "blocked"
            /\ UNCHANGED <<w_found, w_until>>
    /\ UNCHANGED <<w_helper, w_arg, w_timeout, w_evals, w_text, w_result>>

\* until: time.sleep(poll); if time.monotonic() > end_time: break (timeout)
w_Sleep ==
    /\ w_pc = "sleep"
    /\ w_elapsed' = w_elapsed + 1
    /\ page' \in 0..MaxElem
    /\ IF w_elapsed' > w_timeout
       THEN /\ w_until' = [kind |-> "timeout", error |-> ""]
            /\ w_pc' = "return"
       ELSE /\ w_pc' = "eval"
            /\ UNCHANGED w_until
    /\ UNCHANGED <<w_helper, w_arg, w_timeout, w_blocked, w_evals, w_found,
                   w_text, w_result>>

\* the page changes after until has ended and before the helper returns
w_PageChange ==
    /\ w_pc = "return"
    /\ page' \in (0..MaxElem) \ {page}
    /\ UNCHANGED <<w_pc, w_helper, w_arg, w_timeout, w_elapsed, w_blocked, w_evals,
                   w_found, w_until, w_text, w_result>>

\* the helper handles the end of its wait
w_Return ==
    /\ w_pc = "return"
    /\ CASE w_helper = "wait_for_element" ->
              /\ w_result' = wfe_result(w_until, w_found.value, page)
              /\ w_pc' = "done"
         [] w_helper = "is_element_present" ->
              /\ w_result' = iep_result(w_until)
              /\ w_pc' = "done"
         [] w_helper = "is_logged_in" ->
              /\ w_result' = ili_result(w_until)
              /\ w_pc' = "done"
         [] w_helper = "get_error_message" ->
              IF w_until.kind = "value"
              THEN /\ w_pc' = "text"
                   /\ UNCHANGED w_result
              ELSE /\ w_result' = gem_except(w_until)
                   /\ w_pc' = "done"
    /\ UNCHANGED <<w_helper, w_arg, w_timeout, w_elapsed, w_blocked, w_evals,
                   w_found, w_until, w_text, page>>

\* get_error_message: error_text = error_element.text.strip(); return error_text
w_Text ==
    /\ w_pc = "text"
    /\ \/ \E t \in Texts :
             /\ w_text' = t
             /\ w_result' = Return(strip(t))
       \/ \E e \in DriverErrors :
             /\ w_result' = Raise(e)
             /\ UNCHANGED w_text
    /\ w_pc' = "done"
    /\ UNCHANGED <<w_helper, w_arg, w_timeout, w_elapsed, w_blocked, w_evals,
                   w_found, w_until, page>>

\* the call is over; the caller goes on
w_Finish ==
    /\ w_pc = "done"
    /\ w_pc' = "idle"
    /\ UNCHANGED <<w_helper, w_arg, w_timeout, w_elapsed, w_blocked, w_evals,
                   w_found, w_until, w_text, w_result, page>>

\* ------------------------------------------- helpers made of driver calls

UtilOps == {"login", "close_error_message", "get_product_details",
            "go_back_to_products", "safe_find_element", "is_on_inventory_page",
            "refresh_page_and_wait"}

\* current URLs, as path segments
Urls == { <<"/">>, <<"/", "inventory.html">>, <<"/", "inventory-item.html", "?id=4">> }

\* PAGE_PATTERNS["inventory_page"]
inventory_page == <<"/", "inventory.html">>

\* pattern in url
Contains(url, pattern) ==
    \E k \in 0..(Len(url) - Len(pattern)) :
        SubSeq(url, k + 1, k + Len(pattern)) = pattern

\* the driver calls a helper makes, in order
Script(op) ==
    CASE op = "login" ->
           <<"find_element", "clear", "find_element", "send_keys",
             "find_element", "clear", "find_element", "send_keys",
             "find_element", "click">>
      [] op = "close_error_message" -> <<"find_element", "click">>
      [] op = "get_product_details" ->
           <<"find_element", "text_name", "find_element", "text_price">>
      [] op = "go_back_to_products" -> <<"find_element", "click">>
      [] op = "safe_find_element" -> <<"find_element">>
      [] op = "is_on_inventory_page" -> <<"current_url", "current_url">>
      [] op = "refresh_page_and_wait" -> <<"refresh">>

\* what a driver call can raise
CallRaises(call) ==
    CASE call = "find_element" -> {"NoSuchElementException", "WebDriverException"}
      [] call \in {"click", "clear", "send_keys"} ->
           {"ElementNotInteractableException", "StaleElementReferenceException",
            "WebDriverException"}
      [] call \in {"text_name", "text_price"} ->
           {"StaleElementReferenceException", "WebDriverException"}
      [] OTHER -> {"WebDriverException"}

\* what a driver call can return, when the helper reads it
CallValues(call) ==
    CASE call = "text_name" -> Names
      [] call = "text_price" -> Prices
      [] call = "current_url" -> Urls
      [] OTHER -> {"ok"}

\* the exceptions the helper's except clause names
Catches(op) ==
    IF op \in {"close_error_message", "get_product_details",
               "go_back_to_products", "safe_find_element"}
    THEN {"NoSuchElementException"}
    ELSE {}

\* what the except clause returns
OnCaught(op) ==
    IF op \in {"close_error_message", "go_back_to_products"}
    THEN Return(FALSE) ELSE Return(None)

\* what the helper returns when no driver call raised
OnSuccess(op, vals) ==
    CASE op \in {"close_error_message", "go_back_to_products"} -> Return(TRUE)
      [] op = "get_product_details" -> Return([name |-> vals[2], price |-> vals[4]])
      [] op = "safe_find_element" -> Return(<<"element">>)
      [] op = "is_on_inventory_page" -> Return(Contains(vals[1], inventory_page))
      [] OTHER -> Return(None)

u_Init ==
    /\ u_pc = "idle"
    /\ u_op = "login"
    /\ u_step = 0
    /\ u_vals = <<>>
    /\ u_result = NoResult

\* a caller invokes one of the helpers
u_Call ==
    /\ u_pc = "idle"
    /\ u_op' \in UtilOps
    /\ u_pc' = "running"
    /\ u_step' = 0
    /\ u_vals' = <<>>
    /\ u_result' = NoResult

\* the next driver call of the helper returns
u_DriverCall ==
    /\ u_pc = "running"
    /\ u_step < Len(Script(u_op))
    /\ \E v \in CallValues(Script(u_op)[u_step + 1]) : u_vals' = Append(u_vals, v)
    /\ u_step' = u_step + 1
    /\ UNCHANGED <<u_pc, u_op, u_result>>

\* the next driver call of the helper raises: the except clause of the
\* helper, if it has one and it names the exception, returns its value
u_DriverRaises ==
    /\ u_pc = "running"
    /\ u_step < Len(Script(u_op))
    /\ \E e \in CallRaises(Script(u_op)[u_step + 1]) :
          u_result' = IF e \in Catches(u_op) THEN OnCaught(u_op) ELSE Raise(e)
    /\ u_pc' = "done"
    /\ UNCHANGED <<u_op, u_step, u_vals>>

\* all driver calls have returned: the helper returns
u_Return ==
    /\ u_pc = "running"
    /\ u_step = Len(Script(u_op))
    /\ u_result' = OnSuccess(u_op, u_vals)
    /\ u_pc' = "done"
    /\ UNCHANGED <<u_op, u_step, u_vals>>

\* the call is over; the caller goes on
u_Finish ==
    /\ u_pc = "done"
    /\ u_pc' = "idle"
    /\ UNCHANGED <<u_op, u_step, u_vals, u_result>>

\* ---------------------------------------- test_login_errors.py: the tests

\* LOGIN_ERRORS: the cases of test_login_scenarios, with the fields the checks
\* read (the credentials are typed into the page and not read again)
LOGIN_ERRORS == <<
    [case |-> "empty_username", should_succeed |-> FALSE,
     expected_error |->
      <<"E", "p", "i", "c", " ", "s", "a", "d", "f", "a", "c", "e", ":", " ",
      "U", "s", "e", "r", "n", "a", "m", "e", " ", "i", "s", " ", "r", "e",
      "q", "u", "i", "r", "e", "d">>],
    [case |-> "empty_password", should_succeed |-> FALSE,
     expected_error |->
      <<"E", "p", "i", "c", " ", "s", "a", "d", "f", "a", "c", "e", ":", " ",
      "P", "a", "s", "s", "w", "o", "r", "d", " ", "i", "s", " ", "r", "e",
      "q", "u", "i", "r", "e", "d">>],
    [case |-> "invalid_user", should_succeed |-> FALSE,
     expected_error |->
      <<"E", "p", "i", "c", " ", "s", "a", "d", "f", "a", "c", "e", ":", " ",
      "U", "s", "e", "r", "n", "a", "m", "e", " ", "a", "n", "d", " ", "p",
      "a", "s", "s", "w", "o", "r", "d", " ", "d", "o", " ", "n", "o", "t",
      " ", "m", "a", "t", "c", "h", " ", "a", "n", "y", " ", "u", "s", "e",
      "r", " ", "i", "n", " ", "t", "h", "i", "s", " ", "s", "e", "r", "v",
      "i", "c", "e">>],
    [case |-> "locked_out_user", should_succeed |-> FALSE,
     expected_error |->
      <<"E", "p", "i", "c", " ", "s", "a", "d", "f", "a", "c", "e", ":", " ",
      "S", "o", "r", "r", "y", ",", " ", "t", "h", "i", "s", " ", "u", "s",
      "e", "r", " ", "h", "a", "s", " ", "b", "e", "e", "n", " ", "l", "o",
      "c", "k", "e", "d", " ", "o", "u", "t", ".">>],
    [case |-> "special_char_user", should_succeed |-> FALSE,
     expected_error |->
      <<"E", "p", "i", "c", " ", "s", "a", "d", "f", "a", "c", "e", ":", " ",
      "U", "s", "e", "r", "n", "a", "m", "e", " ", "a", "n", "d", " ", "p",
      "a", "s", "s", "w", "o", "r", "d", " ", "d", "o", " ", "n", "o", "t",
      " ", "m", "a", "t", "c", "h", " ", "a", "n", "y", " ", "u", "s", "e",
      "r", " ", "i", "n", " ", "t", "h", "i", "s", " ", "s", "e", "r", "v",
      "i", "c", "e">>],
    [case |-> "valid_user", should_succeed |-> TRUE,
     expected_error |->
      None] >>

\* USERS, in the order of the dict: the user type and its should_fail entry
\* (credentials.get("should_fail", False))
USERS == <<
    [user_type |-> "standard", should_fail |-> FALSE],
    [user_type |-> "locked", should_fail |-> TRUE],
    [user_type |-> "problem", should_fail |-> FALSE],
    [user_type |-> "performance", should_fail |-> FALSE],
    [user_type |-> "error", should_fail |-> FALSE],
    [user_type |-> "visual", should_fail |-> FALSE] >>

\* ERROR_PATTERNS["locked_out"]
locked_out_pattern_title == <<"L", "o", "c", "k", "e", "d", " ", "O", "u", "t">>
locked_out_pattern == <<"l", "o", "c", "k", "e", "d", " ", "o", "u", "t">>

\* the texts the error element of the login page can carry: the messages of
\* the site, the locked-out message in capitals, between white space and
\* without its prefix, and the empty text
PageTexts == {
    <<"E", "p", "i", "c", " ", "s", "a", "d", "f", "a", "c", "e", ":", " ",
          "S", "o", "r", "r", "y", ",", " ", "t", "h", "i", "s", " ", "u", "s",
          "e", "r", " ", "h", "a", "s", " ", "b", "e", "e", "n", " ", "l", "o",
          "c", "k", "e", "d", " ", "o", "u", "t", ".">>,
    <<"E", "p", "i", "c", " ", "s", "a", "d", "f", "a", "c", "e", ":", " ",
          "U", "s", "e", "r", "n", "a", "m", "e", " ", "i", "s", " ", "r", "e",
          "q", "u", "i", "r", "e", "d">>,
    <<"E", "P", "I", "C", " ", "S", "A", "D", "F", "A", "C", "E", ":", " ",
          "S", "O", "R", "R", "Y", ",", " ", "T", "H", "I", "S", " ", "U", "S",
          "E", "R", " ", "H", "A", "S", " ", "B", "E", "E", "N", " ", "L", "O",
          "C", "K", "E", "D", " ", "O", "U", "T", ".">>,
    <<" ", "E", "p", "i", "c", " ", "s", "a", "d", "f", "a", "c", "e", ":",
          " ", "S", "o", "r", "r", "y", ",", " ", "t", "h", "i", "s", " ", "u",
          "s", "e", "r", " ", "h", "a", "s", " ", "b", "e", "e", "n", " ", "l",
          "o", "c", "k", "e", "d", " ", "o", "u", "t", ".", "\n">>,
    <<"S", "o", "r", "r", "y", ",", " ", "t", "h", "i", "s", " ", "u", "s",
          "e", "r", " ", "h", "a", "s", " ", "b", "e", "e", "n", " ", "l", "o",
          "c", "k", "e", "d", " ", "o", "u", "t", ".">>,
    <<>> }

Upper == <<"A", "B", "C", "D", "E", "F", "G", "H", "I", "J", "K", "L", "M",
           "N", "O", "P", "Q", "R", "S", "T", "U", "V", "W", "X", "Y", "Z">>
Lower == <<"a", "b", "c", "d", "e", "f", "g", "h", "i", "j", "k", "l", "m",
           "n", "o", "p", "q", "r", "s", "t", "u", "v", "w", "x", "y", "z">>

\* str.lower()
lower(s) ==
    [i \in 1..Len(s) |->
        IF \E k \in 1..26 : Upper[k] = s[i]
        THEN Lower[CHOOSE k \in 1..26 : Upper[k] = s[i]]
        ELSE s[i]]

\* URLS["login"] and the URL of the inventory page
login_url == <<"/">>
inventory_url == <<"/", "inventory.html">>

\* driver.current_url on a page
url_of(pg) == IF pg = "inventory" THEN inventory_url ELSE login_url

\* get_error_message on the page as it is: the stripped text of the error
\* element, None when the wait for it timed out
error_message(pg, shown) ==
    IF pg = "login" /\ shown # None THEN strip(shown) ELSE None

\* the checks of a success case of test_login_scenarios, as the tags of the
\* failures they append
success_failures(error_text, logged_in, current_url) ==
    (IF error_text # None THEN <<"error_shown">> ELSE <<>>)
    \o (IF ~logged_in THEN <<"not_logged_in">> ELSE <<>>)
    \o (IF ~Contains(current_url, inventory_page) THEN <<"url">> ELSE <<>>)

\* the checks of an error case
error_failures(test_case, error_text, logged_in) ==
    (IF error_text = None THEN <<"no_error">>
     ELSE IF error_text # test_case.expected_error THEN <<"mismatch">>
     ELSE <<>>)
    \o (IF logged_in THEN <<"logged_in">> ELSE <<>>)

\* the locked-out check of test_all_user_types_comprehensive:
\* error_text and expected_error_substring in error_text.lower()
locked_out_check(error_text) ==
    /\ error_text # None
    /\ error_text # <<>>
    /\ Contains(lower(error_text), locked_out_pattern)

scenario_failures(test_case, error_text, logged_in, current_url) ==
    IF test_case.should_succeed
    THEN success_failures(error_text, logged_in, current_url)
    ELSE error_failures(test_case, error_text, logged_in)

lp_Init ==
    /\ lp_page = "login"
    /\ lp_shown = None

tl_Init ==
    /\ tl_pc = "idle"
    /\ tl_case = 1
    /\ tl_current_url = None
    /\ tl_error_text = None
    /\ tl_logged_in = FALSE
    /\ tl_failures = <<>>
    /\ tl_outcome = "none"
    /\ tl_shots = 0

\* an exception leaves the test body: the test ends with an error
tl_Error ==
    /\ tl_outcome' = "error"
    /\ tl_pc' = "done"

\* pytest runs test_login_scenarios with one of the cases
tl_Start ==
    /\ tl_pc = "idle"
    /\ tl_case' \in 1..Len(LOGIN_ERRORS)
    /\ tl_pc' = "get"
    /\ tl_current_url' = None
    /\ tl_error_text' = None
    /\ tl_logged_in' = FALSE
    /\ tl_failures' = <<>>
    /\ tl_outcome' = "none"
    /\ tl_shots' = 0
    /\ UNCHANGED pageVars

\* driver.get(URLS["login"])
tl_Get ==
    /\ tl_pc = "get"
    /\ \/ /\ tl_pc' = "close"
          /\ lp_page' = "login"
          /\ lp_shown' = None
          /\ UNCHANGED tl_outcome
       \/ tl_Error /\ UNCHANGED pageVars
    /\ UNCHANGED <<tl_case, tl_current_url, tl_error_text, tl_logged_in,
                   tl_failures, tl_shots>>

\* close_error_message(driver): True, False, or an exception it does not catch
tl_CloseError ==
    /\ tl_pc = "close"
    /\ \/ tl_pc' = "login" /\ UNCHANGED tl_outcome
       \/ tl_Error
    /\ UNCHANGED <<tl_case, tl_current_url, tl_error_text, tl_logged_in,
                   tl_failures, tl_shots, pageVars>>

\* login(driver, username, password), then time.sleep(medium_sleep): the page
\* shows an error text, or none yet
tl_Login ==
    /\ tl_pc = "login"
    /\ \/ /\ tl_pc' = "url"
          /\ lp_shown' \in PageTexts \cup {None}
          /\ UNCHANGED <<lp_page, tl_outcome>>
       \/ tl_Error /\ UNCHANGED pageVars
    /\ UNCHANGED <<tl_case, tl_current_url, tl_error_text, tl_logged_in,
                   tl_failures, tl_shots>>

\* the browser gets the inventory page, at any time after the login was sent
\* and before is_logged_in has returned
tl_Redirect ==
    /\ tl_pc \in {"url", "error", "logged"}
    /\ lp_page = "login"
    /\ lp_page' = "inventory"
    /\ UNCHANGED <<lp_shown, scenVars>>

\* current_url = driver.current_url
tl_CurrentUrl ==
    /\ tl_pc = "url"
    /\ \/ /\ tl_current_url' = url_of(lp_page)
          /\ tl_pc' = "error"
          /\ UNCHANGED tl_outcome
       \/ tl_Error /\ UNCHANGED tl_current_url
    /\ UNCHANGED <<tl_case, tl_error_text, tl_logged_in, tl_failures, tl_shots,
                   pageVars>>

\* error_text = get_error_message(driver)
tl_GetError ==
    /\ tl_pc = "error"
    /\ \/ /\ tl_error_text' = error_message(lp_page, lp_shown)
          /\ tl_pc' = "logged"
          /\ UNCHANGED tl_outcome
       \/ tl_Error /\ UNCHANGED tl_error_text
    /\ UNCHANGED <<tl_case, tl_current_url, tl_logged_in, tl_failures, tl_shots,
                   pageVars>>

\* logged_in = is_logged_in(driver, timeout=explicit_wait_short): True when
\* the URL has the inventory pattern by the end of the wait
tl_IsLoggedIn ==
    /\ tl_pc = "logged"
    /\ \/ /\ tl_logged_in' = Contains(url_of(lp_page), inventory_page)
          /\ tl_pc' = "verdict"
          /\ UNCHANGED tl_outcome
       \/ tl_Error /\ UNCHANGED tl_logged_in
    /\ UNCHANGED <<tl_case, tl_current_url, tl_error_text, tl_failures, tl_shots,
                   pageVars>>

\* steps 5 and 6: the failures are collected; with a failure the screenshot
\* and pytest.fail, without one the test is over for a success case
tl_Verdict ==
    /\ tl_pc = "verdict"
    /\ tl_failures' = scenario_failures(LOGIN_ERRORS[tl_case], tl_error_text,
                                        tl_logged_in, tl_current_url)
    /\ IF tl_failures' # <<>>
       THEN /\ tl_shots' = tl_shots + 1
            /\ tl_outcome' = "failed"
            /\ tl_pc' = "done"
       ELSE IF LOGIN_ERRORS[tl_case].should_succeed
       THEN /\ tl_outcome' = "passed"
            /\ tl_pc' = "done"
            /\ UNCHANGED tl_shots
       ELSE /\ tl_pc' = "post"
            /\ UNCHANGED <<tl_outcome, tl_shots>>
    /\ UNCHANGED <<tl_case, tl_current_url, tl_error_text, tl_logged_in, pageVars>>

\* an error case without failure: close_error_message and, when it returned
\* True, get_error_message, for a print only
tl_PostClose ==
    /\ tl_pc = "post"
    /\ \/ /\ tl_outcome' = "passed"
          /\ tl_pc' = "done"
          /\ lp_shown' \in {lp_shown, None}
          /\ UNCHANGED lp_page
       \/ tl_Error /\ UNCHANGED pageVars
    /\ UNCHANGED <<tl_case, tl_current_url, tl_error_text, tl_logged_in,
                   tl_failures, tl_shots>>

\* the test is over; pytest goes on
tl_Finish ==
    /\ tl_pc = "done"
    /\ tl_pc' = "idle"
    /\ UNCHANGED <<tl_case, tl_current_url, tl_error_text, tl_logged_in,
                   tl_failures, tl_outcome, tl_shots, pageVars>>

\* should_fail = credentials.get("should_fail", False) or user_type == "locked"
should_fail(user) == user.should_fail \/ user.user_type = "locked"

\* the test of a user type that is expected to log in
success_check_logged_only(error_text, logged_in) == logged_in
success_check(error_text, logged_in) == logged_in /\ error_text = None

\* the status recorded for a user type
user_status(user, error_text, logged_in) ==
    IF should_fail(user)
    THEN IF locked_out_check(error_text) THEN "PASS" ELSE "FAIL"
    ELSE IF success_check(error_text, logged_in) THEN "PASS" ELSE "FAIL"

\* results[user_type] = {"status": status, ..}
SetItem(d, k, v) == [x \in DOMAIN d \cup {k} |-> IF x = k THEN v ELSE d[x]]

\* the dict {}
EmptyDict == [x \in {} |-> "PASS"]

ut_Init ==
    /\ ut_pc = "idle"
    /\ ut_i = 0
    /\ ut_error_text = None
    /\ ut_logged_in = FALSE
    /\ ut_results = EmptyDict
    /\ ut_assigned = 0
    /\ ut_outcome = "none"
    /\ ut_shots = 0

\* an exception leaves the test body: the test ends with an error
ut_Error ==
    /\ ut_outcome' = "error"
    /\ ut_pc' = "done"

\* pytest runs test_all_user_types_comprehensive: results = {}
ut_Start ==
    /\ ut_pc = "idle"
    /\ ut_pc' = "loop"
    /\ ut_i' = 0
    /\ ut_error_text' = None
    /\ ut_logged_in' = FALSE
    /\ ut_results' = EmptyDict
    /\ ut_assigned' = 0
    /\ ut_outcome' = "none"
    /\ ut_shots' = 0
    /\ UNCHANGED pageVars

\* the head of for user_type, credentials in USERS.items()
ut_NextUser ==
    /\ ut_pc = "loop"
    /\ IF ut_i < Len(USERS)
       THEN ut_i' = ut_i + 1 /\ ut_pc' = "get"
       ELSE ut_pc' = "summary" /\ UNCHANGED ut_i
    /\ UNCHANGED <<ut_error_text, ut_logged_in, ut_results, ut_assigned,
                   ut_outcome, ut_shots, pageVars>>

\* driver.get(URLS["login"]), then the short sleep
ut_Get ==
    /\ ut_pc = "get"
    /\ \/ /\ ut_pc' = "close"
          /\ lp_page' = "login"
          /\ lp_shown' = None
          /\ UNCHANGED ut_outcome
       \/ ut_Error /\ UNCHANGED pageVars
    /\ UNCHANGED <<ut_i, ut_error_text, ut_logged_in, ut_results, ut_assigned,
                   ut_shots>>

\* close_error_message(driver): True, False, or an exception it does not catch
ut_CloseError ==
    /\ ut_pc = "close"
    /\ \/ ut_pc' = "login" /\ UNCHANGED ut_outcome
       \/ ut_Error
    /\ UNCHANGED <<ut_i, ut_error_text, ut_logged_in, ut_results, ut_assigned,
                   ut_shots, pageVars>>

\* login(driver, username, password), then time.sleep(medium_sleep)
ut_Login ==
    /\ ut_pc = "login"
    /\ \/ /\ ut_pc' = "error"
          /\ lp_shown' \in PageTexts \cup {None}
          /\ UNCHANGED <<lp_page, ut_outcome>>
       \/ ut_Error /\ UNCHANGED pageVars
    /\ UNCHANGED <<ut_i, ut_error_text, ut_logged_in, ut_results, ut_assigned,
                   ut_shots>>

\* the browser gets the inventory page, at any time after the login was sent
\* and before is_logged_in has returned
ut_Redirect ==
    /\ ut_pc \in {"error", "logged"}
    /\ lp_page = "login"
    /\ lp_page' = "inventory"
    /\ UNCHANGED <<lp_shown, userVars>>

\* error_text = get_error_message(driver)
ut_GetError ==
    /\ ut_pc = "error"
    /\ \/ /\ ut_error_text' = error_message(lp_page, lp_shown)
          /\ ut_pc' = "logged"
          /\ UNCHANGED ut_outcome
       \/ ut_Error /\ UNCHANGED ut_error_text
    /\ UNCHANGED <<ut_i, ut_logged_in, ut_results, ut_assigned, ut_shots, pageVars>>

\* logged_in = is_logged_in(driver, timeout=explicit_wait_short)
ut_IsLoggedIn ==
    /\ ut_pc = "logged"
    /\ \/ /\ ut_logged_in' = Contains(url_of(lp_page), inventory_page)
          /\ ut_pc' = "record"
          /\ UNCHANGED ut_outcome
       \/ ut_Error /\ UNCHANGED ut_logged_in
    /\ UNCHANGED <<ut_i, ut_error_text, ut_results, ut_assigned, ut_shots, pageVars>>

\* the status of the user type goes into results; a FAIL takes a screenshot,
\* the PASS of a user type that logged in prints driver.current_url
ut_Record ==
    /\ ut_pc = "record"
    /\ LET st == user_status(USERS[ut_i], ut_error_text, ut_logged_in) IN
          /\ ut_results' = SetItem(ut_results, USERS[ut_i].user_type, st)
          /\ ut_shots' = IF st = "FAIL" THEN ut_shots + 1 ELSE ut_shots
          /\ ut_pc' = IF st = "PASS" /\ ~should_fail(USERS[ut_i]) THEN "url" ELSE "loop"
    /\ ut_assigned' = ut_assigned + 1
    /\ UNCHANGED <<ut_i, ut_error_text, ut_logged_in, ut_outcome, pageVars>>

\* print(f"      URL: {driver.current_url}")
ut_PrintUrl ==
    /\ ut_pc = "url"
    /\ \/ ut_pc' = "loop" /\ UNCHANGED ut_outcome
       \/ ut_Error
    /\ UNCHANGED <<ut_i, ut_error_text, ut_logged_in, ut_results, ut_assigned,
                   ut_shots, pageVars>>

\* the summary: pytest.fail if failed_count > 0
ut_Summary ==
    /\ ut_pc = "summary"
    /\ LET failed_count == Cardinality({ k \in DOMAIN ut_results : ut_results[k] # "PASS" })
       IN ut_outcome' = IF failed_count > 0 THEN "failed" ELSE "passed"
    /\ ut_pc' = "done"
    /\ UNCHANGED <<ut_i, ut_error_text, ut_logged_in, ut_results, ut_assigned,
                   ut_shots, pageVars>>

\* the test is over; pytest goes on
ut_Finish ==
    /\ ut_pc = "done"
    /\ ut_pc' = "idle"
    /\ UNCHANGED <<ut_i, ut_error_text, ut_logged_in, ut_results, ut_assigned,
                   ut_outcome, ut_shots, pageVars>>

\* -------------------------------------------- BrowserKeywords.py: keywords

\* self.config['urls']['base_url']
base_url == <<"base_url">>

\* the url arguments of Open Browser To URL: none, or a URL
UrlArgs == {None, inventory_url}

\* if not self.driver
bk_needs_session_always(driver) == TRUE
bk_needs_session(driver) == driver = 0

\* the handle refers to a session that exists and whose current window is open
Usable == bk_driver \in bk_live /\ bk_current \in bk_windows

\* what a keyword leaves about itself: its name and argument, the handle it
\* found, whether it created a session, the URL it passed to driver.get
\* (None if it did not get there), whether it raised
Last(kw, arg, created, nav, raised) ==
    [kw |-> kw, arg |-> arg, held |-> bk_driver, created |-> created,
     nav |-> nav, raised |-> raised]

bk_Init ==
    /\ bk_driver = 0
    /\ bk_created = 0
    /\ bk_live = {}
    /\ bk_wins = 0
    /\ bk_windows = {}
    /\ bk_current = 0
    /\ bk_url = None
    /\ bk_last = [kw |-> "init", arg |-> None, held |-> 0, created |-> FALSE,
                  nav |-> None, raised |-> FALSE]

\* Open Browser To URL, no session to create: driver.get(url) and the wait
\* for document.readyState on the session held
bk_OpenNavigate ==
    /\ ~bk_needs_session(bk_driver)
    /\ \E arg \in UrlArgs :
          LET url == IF arg = None THEN base_url ELSE arg IN
          \/ /\ Usable
             /\ bk_url' = url
             /\ \E r \in BOOLEAN : bk_last' = Last("open", arg, FALSE, url, r)
          \/ /\ bk_last' = Last("open", arg, FALSE, url, TRUE)
             /\ UNCHANGED bk_url
    /\ UNCHANGED <<bk_driver, bk_created, bk_live, bk_wins, bk_windows, bk_current>>

\* Open Browser To URL with a session to create: webdriver.Chrome(..) raises,
\* or the new session is held and implicitly_wait, driver.get or the wait
\* for document.readyState may raise
bk_OpenCreate ==
    /\ bk_needs_session(bk_driver)
    /\ bk_created < MaxSessions
    /\ \E arg \in UrlArgs :
          LET url == IF arg = None THEN base_url ELSE arg IN
          \/ /\ bk_last' = Last("open", arg, FALSE, None, TRUE)
             /\ UNCHANGED <<bk_driver, bk_created, bk_live, bk_wins, bk_windows,
                            bk_current, bk_url>>
          \/ /\ bk_created' = bk_created + 1
             /\ bk_driver' = bk_created + 1
             /\ bk_live' = bk_live \cup {bk_created + 1}
             /\ bk_wins' = 1
             /\ bk_windows' = {1}
             /\ bk_current' = 1
             /\ \/ /\ bk_url' = None
                   /\ bk_last' = Last("open", arg, TRUE, None, TRUE)
                \/ /\ bk_url' \in {None, url}
                   /\ bk_last' = Last("open", arg, TRUE, url, TRUE)
                \/ /\ bk_url' = url
                   /\ bk_last' = Last("open", arg, TRUE, url, FALSE)

\* Close Browser: quit and clear the handle if one is held; quit may raise
bk_CloseBrowser ==
    /\ IF bk_driver # 0
       THEN \/ /\ bk_live' = bk_live \ {bk_driver}
               /\ bk_driver' = 0
               /\ bk_wins' = 0
               /\ bk_windows' = {}
               /\ bk_current' = 0
               /\ bk_url' = None
               /\ bk_last' = Last("close", None, FALSE, None, FALSE)
            \/ /\ bk_live' \in {bk_live, bk_live \ {bk_driver}}
               /\ bk_last' = Last("close", None, FALSE, None, TRUE)
               /\ UNCHANGED <<bk_driver, bk_wins, bk_windows, bk_current, bk_url>>
       ELSE /\ bk_last' = Last("close", None, FALSE, None, FALSE)
            /\ UNCHANGED <<bk_driver, bk_live, bk_wins, bk_windows, bk_current,
                           bk_url>>
    /\ UNCHANGED bk_created

\* Get Current URL: self.driver.current_url
bk_GetCurrentUrl ==
    /\ \/ Usable /\ bk_last' = Last("get_url", None, FALSE, None, FALSE)
       \/ bk_last' = Last("get_url", None, FALSE, None, TRUE)
    /\ UNCHANGED <<bk_driver, bk_created, bk_live, bk_wins, bk_windows, bk_current,
                   bk_url>>

\* the page opens another window or tab
bk_PageOpensWindow ==
    /\ Usable
    /\ bk_wins < MaxWindows
    /\ bk_wins' = bk_wins + 1
    /\ bk_windows' = bk_windows \cup {bk_wins + 1}
    /\ UNCHANGED <<bk_driver, bk_created, bk_live, bk_current, bk_url, bk_last>>

\* window_handles[k]: the handles in the order of opening
Max(S) == CHOOSE x \in S : \A y \in S : y <= x
Min(S) == CHOOSE x \in S : \A y \in S : x <= y

\* Switch To New Window: wait for a second window, switch to the last one
bk_SwitchToNewWindow ==
    /\ \/ /\ bk_driver \in bk_live
          /\ Cardinality(bk_windows) > 1
          /\ bk_current' = Max(bk_windows)
          /\ bk_last' = Last("switch_new", None, FALSE, None, FALSE)
       \/ /\ bk_last' = Last("switch_new", None, FALSE, None, TRUE)
          /\ UNCHANGED bk_current
    /\ UNCHANGED <<bk_driver, bk_created, bk_live, bk_wins, bk_windows, bk_url>>

\* Switch To Main Window: switch to window_handles[0]
bk_SwitchToMainWindow ==
    /\ \/ /\ bk_driver \in bk_live
          /\ bk_windows # {}
          /\ bk_current' = Min(bk_windows)
          /\ bk_last' = Last("switch_main", None, FALSE, None, FALSE)
       \/ /\ bk_last' = Last("switch_main", None, FALSE, None, TRUE)
          /\ UNCHANGED bk_current
    /\ UNCHANGED <<bk_driver, bk_created, bk_live, bk_wins, bk_windows, bk_url>>

\* Close Current Window: driver.close(); the session ends with its last window
bk_CloseCurrentWindow ==
    /\ \/ /\ Usable
          /\ bk_windows' = bk_windows \ {bk_current}
          /\ bk_live' = IF bk_windows' = {} THEN bk_live \ {bk_driver} ELSE bk_live
          /\ bk_last' = Last("close_window", None, FALSE, None, FALSE)
       \/ /\ bk_last' = Last("close_window", None, FALSE, None, TRUE)
          /\ UNCHANGED <<bk_windows, bk_live>>
    /\ UNCHANGED <<bk_driver, bk_created, bk_wins, bk_current, bk_url>>

\* ------------------------------------------------------- specifications

ShotInit == ts_Init /\ cp_Init /\ fx_Init /\ w_Init /\ u_Init /\ gp_Init /\ vp_Init /\ lp_Init /\ tl_Init /\ ut_Init /\ bk_Init

ShotNext ==
    \/ ts_Call /\ UNCHANGED <<clickVars, fixVars, waitVars, utilVars, prodVars, verifyVars, pageVars, scenVars, userVars, keywordVars>>
    \/ ts_EnsureDir /\ UNCHANGED <<clickVars, fixVars, waitVars, utilVars, prodVars, verifyVars, pageVars, scenVars, userVars, keywordVars>>
    \/ ts_BuildName /\ UNCHANGED <<clickVars, fixVars, waitVars, utilVars, prodVars, verifyVars, pageVars, scenVars, userVars, keywordVars>>
    \/ ts_Save /\ UNCHANGED <<clickVars, fixVars, waitVars, utilVars, prodVars, verifyVars, pageVars, scenVars, userVars, keywordVars>>
    \/ ts_Verify /\ UNCHANGED <<clickVars, fixVars, waitVars, utilVars, prodVars, verifyVars, pageVars, scenVars, userVars, keywordVars>>
    \/ ts_Finish /\ UNCHANGED <<clickVars, fixVars, waitVars, utilVars, prodVars, verifyVars, pageVars, scenVars, userVars, keywordVars>>
    \/ ts_Tick /\ UNCHANGED <<clickVars, fixVars, waitVars, utilVars, prodVars, verifyVars, pageVars, scenVars, userVars, keywordVars>>

SpecShot == ShotInit /\ [][ShotNext]_vars

ClickInit == cp_Init /\ ts_Init /\ dirExists /\ fx_Init /\ w_Init /\ u_Init /\ gp_Init /\ vp_Init /\ lp_Init /\ tl_Init /\ ut_Init /\ bk_Init

ClickNext ==
    \/ cp_Call /\ UNCHANGED <<shotVars, fixVars, waitVars, utilVars, prodVars, verifyVars, pageVars, scenVars, userVars, keywordVars>>
    \/ cp_NextAttempt /\ UNCHANGED <<shotVars, fixVars, waitVars, utilVars, prodVars, verifyVars, pageVars, scenVars, userVars, keywordVars>>
    \/ cp_Locate /\ UNCHANGED <<shotVars, fixVars, waitVars, utilVars, prodVars, verifyVars, pageVars, scenVars, userVars, keywordVars>>
    \/ cp_NextProduct /\ UNCHANGED <<shotVars, fixVars, waitVars, utilVars, prodVars, verifyVars, pageVars, scenVars, userVars, keywordVars>>
    \/ cp_Direct /\ UNCHANGED <<shotVars, fixVars, waitVars, utilVars, prodVars, verifyVars, pageVars, scenVars, userVars, keywordVars>>
    \/ cp_Js /\ UNCHANGED <<shotVars, fixVars, waitVars, utilVars, prodVars, verifyVars, pageVars, scenVars, userVars, keywordVars>>
    \/ cp_Finish /\ UNCHANGED <<shotVars, fixVars, waitVars, utilVars, prodVars, verifyVars, pageVars, scenVars, userVars, keywordVars>>

SpecClick == ClickInit /\ [][ClickNext]_vars

FixtureInit == fx_Init /\ ts_Init /\ dirExists /\ cp_Init /\ w_Init /\ u_Init /\ gp_Init /\ vp_Init /\ lp_Init /\ tl_Init /\ ut_Init /\ bk_Init

FixtureNext ==
    \/ fx_StartTest /\ UNCHANGED <<shotVars, clickVars, waitVars, utilVars, prodVars, verifyVars, pageVars, scenVars, userVars, keywordVars>>
    \/ fx_InitAuto /\ UNCHANGED <<shotVars, clickVars, waitVars, utilVars, prodVars, verifyVars, pageVars, scenVars, userVars, keywordVars>>
    \/ fx_InitFallback /\ UNCHANGED <<shotVars, clickVars, waitVars, utilVars, prodVars, verifyVars, pageVars, scenVars, userVars, keywordVars>>
    \/ fx_ImplicitlyWait /\ UNCHANGED <<shotVars, clickVars, waitVars, utilVars, prodVars, verifyVars, pageVars, scenVars, userVars, keywordVars>>
    \/ fx_MaximizeWindow /\ UNCHANGED <<shotVars, clickVars, waitVars, utilVars, prodVars, verifyVars, pageVars, scenVars, userVars, keywordVars>>
    \/ fx_Yield /\ UNCHANGED <<shotVars, clickVars, waitVars, utilVars, prodVars, verifyVars, pageVars, scenVars, userVars, keywordVars>>
    \/ fx_LoginGet /\ UNCHANGED <<shotVars, clickVars, waitVars, utilVars, prodVars, verifyVars, pageVars, scenVars, userVars, keywordVars>>
    \/ fx_LoginSubmit /\ UNCHANGED <<shotVars, clickVars, waitVars, utilVars, prodVars, verifyVars, pageVars, scenVars, userVars, keywordVars>>
    \/ fx_LoginCheck /\ UNCHANGED <<shotVars, clickVars, waitVars, utilVars, prodVars, verifyVars, pageVars, scenVars, userVars, keywordVars>>
    \/ fx_LoginFailed /\ UNCHANGED <<shotVars, clickVars, waitVars, utilVars, prodVars, verifyVars, pageVars, scenVars, userVars, keywordVars>>
    \/ fx_Call /\ UNCHANGED <<shotVars, clickVars, waitVars, utilVars, prodVars, verifyVars, pageVars, scenVars, userVars, keywordVars>>
    \/ fx_Teardown /\ UNCHANGED <<shotVars, clickVars, waitVars, utilVars, prodVars, verifyVars, pageVars, scenVars, userVars, keywordVars>>
    \/ fx_TdCheck /\ UNCHANGED <<shotVars, clickVars, waitVars, utilVars, prodVars, verifyVars, pageVars, scenVars, userVars, keywordVars>>
    \/ fx_TdCurrentUrl /\ UNCHANGED <<shotVars, clickVars, waitVars, utilVars, prodVars, verifyVars, pageVars, scenVars, userVars, keywordVars>>
    \/ fx_TdTitle /\ UNCHANGED <<shotVars, clickVars, waitVars, utilVars, prodVars, verifyVars, pageVars, scenVars, userVars, keywordVars>>
    \/ fx_TdQuit /\ UNCHANGED <<shotVars, clickVars, waitVars, utilVars, prodVars, verifyVars, pageVars, scenVars, userVars, keywordVars>>
    \/ fx_AutoCheck /\ UNCHANGED <<shotVars, clickVars, waitVars, utilVars, prodVars, verifyVars, pageVars, scenVars, userVars, keywordVars>>
    \/ fx_TdEnd /\ UNCHANGED <<shotVars, clickVars, waitVars, utilVars, prodVars, verifyVars, pageVars, scenVars, userVars, keywordVars>>
    \/ fx_NextTest /\ UNCHANGED <<shotVars, clickVars, waitVars, utilVars, prodVars, verifyVars, pageVars, scenVars, userVars, keywordVars>>

SpecFixture == FixtureInit /\ [][FixtureNext]_vars

WaitInit == w_Init /\ ts_Init /\ dirExists /\ cp_Init /\ fx_Init /\ u_Init /\ gp_Init /\ vp_Init /\ lp_Init /\ tl_Init /\ ut_Init /\ bk_Init

WaitNext ==
    \/ w_Call /\ UNCHANGED <<shotVars, clickVars, fixVars, utilVars, prodVars, verifyVars, pageVars, scenVars, userVars, keywordVars>>
    \/ w_Eval /\ UNCHANGED <<shotVars, clickVars, fixVars, utilVars, prodVars, verifyVars, pageVars, scenVars, userVars, keywordVars>>
    \/ w_Block /\ UNCHANGED <<shotVars, clickVars, fixVars, utilVars, prodVars, verifyVars, pageVars, scenVars, userVars, keywordVars>>
    \/ w_Sleep /\ UNCHANGED <<shotVars, clickVars, fixVars, utilVars, prodVars, verifyVars, pageVars, scenVars, userVars, keywordVars>>
    \/ w_PageChange /\ UNCHANGED <<shotVars, clickVars, fixVars, utilVars, prodVars, verifyVars, pageVars, scenVars, userVars, keywordVars>>
    \/ w_Return /\ UNCHANGED <<shotVars, clickVars, fixVars, utilVars, prodVars, verifyVars, pageVars, scenVars, userVars, keywordVars>>
    \/ w_Text /\ UNCHANGED <<shotVars, clickVars, fixVars, utilVars, prodVars, verifyVars, pageVars, scenVars, userVars, keywordVars>>
    \/ w_Finish /\ UNCHANGED <<shotVars, clickVars, fixVars, utilVars, prodVars, verifyVars, pageVars, scenVars, userVars, keywordVars>>

SpecWait == WaitInit /\ [][WaitNext]_vars

UtilInit == u_Init /\ ts_Init /\ dirExists /\ cp_Init /\ fx_Init /\ w_Init /\ gp_Init /\ vp_Init /\ lp_Init /\ tl_Init /\ ut_Init /\ bk_Init

UtilNext ==
    \/ u_Call /\ UNCHANGED <<shotVars, clickVars, fixVars, waitVars, prodVars, verifyVars, pageVars, scenVars, userVars, keywordVars>>
    \/ u_DriverCall /\ UNCHANGED <<shotVars, clickVars, fixVars, waitVars, prodVars, verifyVars, pageVars, scenVars, userVars, keywordVars>>
    \/ u_DriverRaises /\ UNCHANGED <<shotVars, clickVars, fixVars, waitVars, prodVars, verifyVars, pageVars, scenVars, userVars, keywordVars>>
    \/ u_Return /\ UNCHANGED <<shotVars, clickVars, fixVars, waitVars, prodVars, verifyVars, pageVars, scenVars, userVars, keywordVars>>
    \/ u_Finish /\ UNCHANGED <<shotVars, clickVars, fixVars, waitVars, prodVars, verifyVars, pageVars, scenVars, userVars, keywordVars>>

SpecUtil == UtilInit /\ [][UtilNext]_vars

ProductsInit == gp_Init /\ ts_Init /\ dirExists /\ cp_Init /\ fx_Init /\ w_Init /\ u_Init /\ vp_Init /\ lp_Init /\ tl_Init /\ ut_Init /\ bk_Init

ProductsNext ==
    \/ gp_Call /\ vp_pc = "idle" /\ UNCHANGED <<shotVars, clickVars, fixVars, waitVars, utilVars, verifyVars, pageVars, scenVars, userVars, keywordVars>>
    \/ gp_Wait /\ UNCHANGED <<shotVars, clickVars, fixVars, waitVars, utilVars, verifyVars, pageVars, scenVars, userVars, keywordVars>>
    \/ gp_List /\ UNCHANGED <<shotVars, clickVars, fixVars, waitVars, utilVars, verifyVars, pageVars, scenVars, userVars, keywordVars>>
    \/ gp_Item /\ UNCHANGED <<shotVars, clickVars, fixVars, waitVars, utilVars, verifyVars, pageVars, scenVars, userVars, keywordVars>>
    \/ gp_Return /\ UNCHANGED <<shotVars, clickVars, fixVars, waitVars, utilVars, verifyVars, pageVars, scenVars, userVars, keywordVars>>
    \/ gp_Finish /\ vp_pc = "idle" /\ UNCHANGED <<shotVars, clickVars, fixVars, waitVars, utilVars, verifyVars, pageVars, scenVars, userVars, keywordVars>>
    \/ vp_Call /\ UNCHANGED <<shotVars, clickVars, fixVars, waitVars, utilVars, pageVars, scenVars, userVars, keywordVars>>
    \/ vp_Products /\ UNCHANGED <<shotVars, clickVars, fixVars, waitVars, utilVars, pageVars, scenVars, userVars, keywordVars>>
    \/ vp_Compare /\ UNCHANGED <<shotVars, clickVars, fixVars, waitVars, utilVars, pageVars, scenVars, userVars, keywordVars>>
    \/ vp_Return /\ UNCHANGED <<shotVars, clickVars, fixVars, waitVars, utilVars, pageVars, scenVars, userVars, keywordVars>>
    \/ vp_Finish /\ UNCHANGED <<shotVars, clickVars, fixVars, waitVars, utilVars, pageVars, scenVars, userVars, keywordVars>>

SpecProducts == ProductsInit /\ [][ProductsNext]_vars

ScenarioInit == tl_Init /\ lp_Init /\ ts_Init /\ dirExists /\ cp_Init /\ fx_Init /\ w_Init /\ u_Init /\ gp_Init /\ vp_Init /\ ut_Init /\ bk_Init

ScenarioNext ==
    \/ tl_Start /\ UNCHANGED <<shotVars, clickVars, fixVars, waitVars, utilVars, prodVars, verifyVars, userVars, keywordVars>>
    \/ tl_Get /\ UNCHANGED <<shotVars, clickVars, fixVars, waitVars, utilVars, prodVars, verifyVars, userVars, keywordVars>>
    \/ tl_CloseError /\ UNCHANGED <<shotVars, clickVars, fixVars, waitVars, utilVars, prodVars, verifyVars, userVars, keywordVars>>
    \/ tl_Login /\ UNCHANGED <<shotVars, clickVars, fixVars, waitVars, utilVars, prodVars, verifyVars, userVars, keywordVars>>
    \/ tl_Redirect /\ UNCHANGED <<shotVars, clickVars, fixVars, waitVars, utilVars, prodVars, verifyVars, userVars, keywordVars>>
    \/ tl_CurrentUrl /\ UNCHANGED <<shotVars, clickVars, fixVars, waitVars, utilVars, prodVars, verifyVars, userVars, keywordVars>>
    \/ tl_GetError /\ UNCHANGED <<shotVars, clickVars, fixVars, waitVars, utilVars, prodVars, verifyVars, userVars, keywordVars>>
    \/ tl_IsLoggedIn /\ UNCHANGED <<shotVars, clickVars, fixVars, waitVars, utilVars, prodVars, verifyVars, userVars, keywordVars>>
    \/ tl_Verdict /\ UNCHANGED <<shotVars, clickVars, fixVars, waitVars, utilVars, prodVars, verifyVars, userVars, keywordVars>>
    \/ tl_PostClose /\ UNCHANGED <<shotVars, clickVars, fixVars, waitVars, utilVars, prodVars, verifyVars, userVars, keywordVars>>
    \/ tl_Finish /\ UNCHANGED <<shotVars, clickVars, fixVars, waitVars, utilVars, prodVars, verifyVars, userVars, keywordVars>>

SpecScenario == ScenarioInit /\ [][ScenarioNext]_vars

UserTypesInit == ut_Init /\ lp_Init /\ tl_Init /\ ts_Init /\ dirExists /\ cp_Init /\ fx_Init /\ w_Init /\ u_Init /\ gp_Init /\ vp_Init /\ bk_Init

UserTypesNext ==
    \/ ut_Start /\ UNCHANGED <<shotVars, clickVars, fixVars, waitVars, utilVars, prodVars, verifyVars, scenVars, keywordVars>>
    \/ ut_NextUser /\ UNCHANGED <<shotVars, clickVars, fixVars, waitVars, utilVars, prodVars, verifyVars, scenVars, keywordVars>>
    \/ ut_Get /\ UNCHANGED <<shotVars, clickVars, fixVars, waitVars, utilVars, prodVars, verifyVars, scenVars, keywordVars>>
    \/ ut_CloseError /\ UNCHANGED <<shotVars, clickVars, fixVars, waitVars, utilVars, prodVars, verifyVars, scenVars, keywordVars>>
    \/ ut_Login /\ UNCHANGED <<shotVars, clickVars, fixVars, waitVars, utilVars, prodVars, verifyVars, scenVars, keywordVars>>
    \/ ut_Redirect /\ UNCHANGED <<shotVars, clickVars, fixVars, waitVars, utilVars, prodVars, verifyVars, scenVars, keywordVars>>
    \/ ut_GetError /\ UNCHANGED <<shotVars, clickVars, fixVars, waitVars, utilVars, prodVars, verifyVars, scenVars, keywordVars>>
    \/ ut_IsLoggedIn /\ UNCHANGED <<shotVars, clickVars, fixVars, waitVars, utilVars, prodVars, verifyVars, scenVars, keywordVars>>
    \/ ut_Record /\ UNCHANGED <<shotVars, clickVars, fixVars, waitVars, utilVars, prodVars, verifyVars, scenVars, keywordVars>>
    \/ ut_PrintUrl /\ UNCHANGED <<shotVars, clickVars, fixVars, waitVars, utilVars, prodVars, verifyVars, scenVars, keywordVars>>
    \/ ut_Summary /\ UNCHANGED <<shotVars, clickVars, fixVars, waitVars, utilVars, prodVars, verifyVars, scenVars, keywordVars>>
    \/ ut_Finish /\ UNCHANGED <<shotVars, clickVars, fixVars, waitVars, utilVars, prodVars, verifyVars, scenVars, keywordVars>>

SpecUserTypes == UserTypesInit /\ [][UserTypesNext]_vars

KeywordsInit == bk_Init /\ ut_Init /\ lp_Init /\ tl_Init /\ ts_Init /\ dirExists /\ cp_Init /\ fx_Init /\ w_Init /\ u_Init /\ gp_Init /\ vp_Init

KeywordsNext ==
    \/ bk_OpenNavigate /\ UNCHANGED <<shotVars, clickVars, fixVars, waitVars, utilVars, prodVars, verifyVars, pageVars, scenVars, userVars>>
    \/ bk_OpenCreate /\ UNCHANGED <<shotVars, clickVars, fixVars, waitVars, utilVars, prodVars, verifyVars, pageVars, scenVars, userVars>>
    \/ bk_CloseBrowser /\ UNCHANGED <<shotVars, clickVars, fixVars, waitVars, utilVars, prodVars, verifyVars, pageVars, scenVars, userVars>>
    \/ bk_GetCurrentUrl /\ UNCHANGED <<shotVars, clickVars, fixVars, waitVars, utilVars, prodVars, verifyVars, pageVars, scenVars, userVars>>
    \/ bk_PageOpensWindow /\ UNCHANGED <<shotVars, clickVars, fixVars, waitVars, utilVars, prodVars, verifyVars, pageVars, scenVars, userVars>>
    \/ bk_SwitchToNewWindow /\ UNCHANGED <<shotVars, clickVars, fixVars, waitVars, utilVars, prodVars, verifyVars, pageVars, scenVars, userVars>>
    \/ bk_SwitchToMainWindow /\ UNCHANGED <<shotVars, clickVars, fixVars, waitVars, utilVars, prodVars, verifyVars, pageVars, scenVars, userVars>>
    \/ bk_CloseCurrentWindow /\ UNCHANGED <<shotVars, clickVars, fixVars, waitVars, utilVars, prodVars, verifyVars, pageVars, scenVars, userVars>>

SpecKeywords == KeywordsInit /\ [][KeywordsNext]_vars

\* ---------------------------------------------------- claims: take_screenshot

\* C1: take_screenshot never raises: whatever the test name, the tag and the
\* driver state (a closed session included), and whichever step fails (the
\* directory creation, the file naming, driver.save_screenshot), the call ends
\* in a normal return.
C1_NeverRaises ==
    /\ ts_result.kind # "raise"
    /\ ts_pc = "done" => ts_result.kind = "return"
    /\ (ts_pc = "done" /\ ts_fault \in {"mkdir", "name", "save"})
          => ts_result = Return(None)

\* a call on a closed session whose save_screenshot raised has returned
C1_Witness ==
    /\ ts_pc = "done"
    /\ ts_args.session = "closed"
    /\ ts_fault = "save"
    /\ ts_result.kind = "return"

C13_DistinctPaths ==
    \A a, b \in ts_writes :
        <<a.test_name, a.screenshot_type, a.ts>>
              # <<b.test_name, b.screenshot_type, b.ts>>
           => a.path # b.path

\* C14: save_screenshot is invoked only while the screenshot directory
\* exists, and when the directory was absent at call time os.makedirs has
\* created it before save_screenshot is invoked.
C14_DirBeforeSave ==
    \A k \in 1..Len(ts_trace) :
        ts_trace[k].op = "save_screenshot" =>
            /\ ts_trace[k].dir
            /\ ts_trace[1].op = "exists"
            /\ ~ts_trace[1].dir =>
                  \E j \in 2..(k - 1) :
                      ts_trace[j] = [op |-> "makedirs", dir |-> TRUE]

\* the directory was absent at call time and save_screenshot was invoked
C14_Witness ==
    /\ Len(ts_trace) = 3
    /\ ~ts_trace[1].dir
    /\ ts_trace[3].op = "save_screenshot"
    /\ ts_pc = "verify"
    /\ ts_filename \in files

\* ---------------------------------------------- claims: click_product_by_name

\* C2: click_product_by_name never raises: whatever the driver does while the
\* products are located, during the direct click or during the JavaScript
\* click, the call returns a boolean, and it returns False once all
\* retry_count attempts are exhausted without a click that succeeded.
C2_ClickNeverRaises ==
    /\ cp_result.kind # "raise"
    /\ cp_pc = "done" =>
          /\ cp_result.kind = "return"
          /\ cp_result.value \in BOOLEAN
    /\ (cp_pc = "done" /\ cp_clicks = 0) =>
          /\ cp_result.value = FALSE
          /\ cp_todo = <<>>
          /\ cp_locates = cp_args.retry_count

\* both clicks failed in the last of two attempts and False was returned
C2_Witness ==
    /\ cp_pc = "done"
    /\ cp_args.retry_count = 2
    /\ cp_tries >= 2
    /\ cp_clicks = 0
    /\ cp_result = Return(FALSE)

\* C3 as stated: at most retry_count location attempts and, within each
\* attempt, at most two click strategies, whatever the page lists.
C3_TwoClicksPerAttempt ==
    /\ cp_locates <= cp_args.retry_count
    /\ cp_tries <= 2

\* C3 as amended: at most retry_count location attempts and at most two click
\* strategies on each listed product that carries the requested name; an
\* attempt tries at most two clicks for each such product it has reached.
C3_TwoClicksPerProduct ==
    /\ cp_locates <= cp_args.retry_count
    /\ cp_elemTries <= 2
    /\ cp_tries <= 2 * Cardinality(Matching(cp_products, cp_args.product_name)
                                   \cap 1..cp_i)

\* one attempt has tried four clicks: two products carry the requested name
C3_Witness ==
    /\ cp_tries = 4
    /\ cp_elemTries = 2
    /\ Cardinality(Matching(cp_products, cp_args.product_name)) = 2
    /\ cp_locates <= cp_args.retry_count

\* C11: within each attempt of click_product_by_name the steps are ordered:
\* the attempt starts with one lookup of the product list, every click acts on
\* an element that lookup located (none of an earlier attempt) and that
\* carries the requested name, the direct click is the first strategy on an
\* element, the JavaScript click follows only a direct click on the same
\* element that failed, and nothing follows a click that succeeded.
C11_OrderWithinAttempt ==
    /\ cp_pc \in {"next", "direct", "js"} =>
          /\ cp_log # <<>>
          /\ cp_locates = cp_args.retry_count - Len(cp_todo)
    /\ \A k \in 1..Len(cp_log) :
          LET s == cp_log[k] IN
          /\ (s.op = "locate") <=> (k = 1)
          /\ s.elem[1] = cp_locates
          /\ s.op # "locate" =>
                \E j \in Matching(cp_products, cp_args.product_name) :
                    cp_products[j].name_link = s.elem
          /\ s.op = "direct" =>
                /\ cp_log[k - 1].op \in {"locate", "js"}
                /\ \A j \in 1..(k - 1) : cp_log[j].elem # s.elem
          /\ s.op = "js" =>
                cp_log[k - 1] = [op |-> "direct", ok |-> FALSE, elem |-> s.elem]
          /\ (k < Len(cp_log) /\ s.op # "locate") => ~s.ok

\* in the second attempt the JavaScript click was tried on the element the
\* second lookup located, after the direct click on it had failed
C11_Witness ==
    /\ cp_locates = 2
    /\ Len(cp_log) >= 3
    /\ cp_log[Len(cp_log)].op = "js"
    /\ cp_log[Len(cp_log)].elem[1] = 2
    /\ cp_log[Len(cp_log) - 1].ok = FALSE

\* C12: when both click strategies failed in an attempt that is not the
\* last, some time is slept before the lookup of the next attempt begins.
C12_DelayBeforeRetry ==
    (cp_pc = "locate" /\ cp_bothFailed) => cp_slept >= 1

\* C22: click_product_by_name returns True exactly when a click, standard or
\* JavaScript, on the name link of a listed product with the given name
\* completed without error; every click it attempts is on such a product, so
\* with no listed product of that name it attempts none; it returns False
\* only after retry_count lookups of the products.
C22_TrueIffMatchingClick ==
    /\ \A j \in 1..Len(cp_log) :
          cp_log[j].op \in {"direct", "js"} =>
             \E k \in Matching(cp_products, cp_args.product_name) :
                cp_products[k].name_link = cp_log[j].elem
    /\ Matching(cp_products, cp_args.product_name) = {} => cp_tries = 0
    /\ cp_pc = "done" =>
          /\ cp_result.kind = "return"
          /\ cp_result.value = (cp_clicks >= 1)
          /\ cp_result.value = TRUE =>
                /\ cp_log[Len(cp_log)].op \in {"direct", "js"}
                /\ cp_log[Len(cp_log)].ok
          /\ cp_result.value = FALSE =>
                /\ cp_locates = cp_args.retry_count
                /\ \A j \in 1..Len(cp_log) : cp_log[j].op = "locate" \/ ~cp_log[j].ok

\* two lookups listed products, none of them with the name asked for, and the
\* call returned False without a click
C22_Witness ==
    /\ cp_pc = "done"
    /\ cp_result = Return(FALSE)
    /\ cp_args.retry_count = 2
    /\ cp_locates = 2
    /\ cp_products # <<>>
    /\ Matching(cp_products, cp_args.product_name) = {}
    /\ Len(cp_log) = 1

\* C23: click_product_by_name returns at once after the first click that
\* succeeded: a call makes at most one successful click, nothing is located or
\* clicked after it, and the call then returns True.
C23_ReturnsAfterFirstClick ==
    /\ cp_clicks <= 1
    /\ cp_clicks = 1 =>
          /\ cp_pc \in {"done", "idle"}
          /\ cp_result = Return(TRUE)
          /\ cp_log[Len(cp_log)].ok /\ cp_log[Len(cp_log)].op \in {"direct", "js"}
          /\ \A j \in 1..(Len(cp_log) - 1) :
                cp_log[j].op = "locate" \/ ~cp_log[j].ok

\* the first of two listed products with the name was clicked, the second one
\* not tried
C23_Witness ==
    /\ cp_pc = "done"
    /\ cp_clicks = 1
    /\ \E k \in Matching(cp_products, cp_args.product_name) : k > cp_i
    /\ cp_tries = 1

\* --------------------------------------------------- claims: get_all_products

\* C20: get_all_products never raises and returns an order-preserving
\* subsequence of the items of the page: exactly the items whose five reads
\* all succeeded, each with its name, its price and its 1-based position on
\* the page as index, a skipped item not aborting the others; a failure of
\* the wait or of the listing yields the empty list.
C20_ProductsSubsequence ==
    /\ gp_result.kind # "raise"
    /\ gp_pc = "done" =>
          /\ gp_result.kind = "return"
          /\ LET ps == gp_result.value IN
             /\ \A k \in 1..Len(ps) :
                   /\ ps[k].index \in (1..Len(gp_items)) \ gp_skipped
                   /\ ps[k].name = gp_items[ps[k].index].name
                   /\ ps[k].price = gp_items[ps[k].index].price
             /\ \A k \in 1..(Len(ps) - 1) : ps[k].index < ps[k + 1].index
             /\ gp_fault = "none" =>
                   \A i \in (1..Len(gp_items)) \ gp_skipped :
                       \E k \in 1..Len(ps) : ps[k].index = i
             /\ gp_fault # "none" => ps = <<>>
             /\ ps = get_all_products(IF gp_fault = "none" THEN "ok" ELSE gp_fault,
                                      gp_items, gp_skipped, 1)

\* the first of two items was skipped and the second one returned, with index 2
C20_Witness ==
    /\ gp_pc = "done"
    /\ Len(gp_items) = 2
    /\ gp_skipped = {1}
    /\ Len(gp_result.value) = 1
    /\ gp_result.value[1].index = 2

\* C21: verify_product_exists returns True exactly when a product that
\* get_all_products returned has both the given name and the given price, and
\* False otherwise, also when the product list could not be read; it never
\* raises.
C21_TrueIffNameAndPrice ==
    /\ vp_result.kind # "raise"
    /\ vp_pc = "done" =>
          /\ vp_result.kind = "return"
          /\ vp_result.value =
                (\E k \in 1..Len(gp_result.value) :
                    /\ gp_result.value[k].name = vp_args.product_name
                    /\ gp_result.value[k].price = vp_args.expected_price)
          /\ gp_fault # "none" => vp_result.value = FALSE

\* a product with the name asked for but another price was listed, and the
\* answer was False
C21_Witness ==
    /\ vp_pc = "done"
    /\ vp_result = Return(FALSE)
    /\ \E k \in 1..Len(gp_result.value) :
          /\ gp_result.value[k].name = vp_args.product_name
          /\ gp_result.value[k].price # vp_args.expected_price

\* ------------------------------------------------ claims: the login tests

\* the checks of test_login_scenarios have been made on the values read
tl_Checked == tl_pc = "post" \/ tl_outcome \in {"passed", "failed"}

\* C24: every error text that the exact check of test_login_scenarios accepts
\* for the locked_out_user case (a text was read and it equals expected_error)
\* is accepted by the substring check of test_all_user_types_comprehensive
\* (the lower-cased text contains ERROR_PATTERNS["locked_out"]); and among the
\* texts the page can show there is one the substring check accepts and the
\* exact check rejects.
C24_ExactImpliesSubstring ==
    /\ (/\ tl_Checked
        /\ LOGIN_ERRORS[tl_case].case = "locked_out_user"
        /\ \A j \in 1..Len(tl_failures) : tl_failures[j] \notin {"no_error", "mismatch"})
       => locked_out_check(tl_error_text)
    /\ \E t \in PageTexts, c \in 1..Len(LOGIN_ERRORS) :
          /\ LOGIN_ERRORS[c].case = "locked_out_user"
          /\ locked_out_check(error_message("login", t))
          /\ "mismatch" \in { error_failures(LOGIN_ERRORS[c], error_message("login", t),
                                            FALSE)[j] :
                               j \in 1..Len(error_failures(LOGIN_ERRORS[c],
                                                          error_message("login", t), FALSE)) }

\* the locked_out_user case read a text from the page that the exact check
\* accepted, and the test passed
C24_Witness ==
    /\ tl_outcome = "passed"
    /\ LOGIN_ERRORS[tl_case].case = "locked_out_user"
    /\ tl_failures = <<>>
    /\ tl_error_text = LOGIN_ERRORS[tl_case].expected_error

\* the first k user types of USERS
FirstTypes(k) == { USERS[j].user_type : j \in 1..k }

\* some user type was recorded FAIL
SomeFail == \E k \in DOMAIN ut_results : ut_results[k] = "FAIL"

\* the status the claim gives a user type: one marked should_fail or named
\* "locked" passes iff an error text with "locked out" in it (in any case of
\* the letters) was read, any other one iff it is logged in and no error text
\* was read
ClaimedStatus(user, error_text, logged_in) ==
    IF user.should_fail \/ user.user_type = "locked"
    THEN IF error_text # None /\ Contains(lower(error_text), locked_out_pattern)
         THEN "PASS" ELSE "FAIL"
    ELSE IF logged_in /\ error_text = None THEN "PASS" ELSE "FAIL"

\* C25 as stated: when test_all_user_types_comprehensive is over, every user
\* type of USERS has exactly one PASS/FAIL result, given by the rule above,
\* and the test did not pass iff some user type was recorded FAIL.
C25_AllTypesRecorded ==
    /\ ut_pc \in {"loop", "url", "summary"} /\ ut_i >= 1 =>
          ut_results[USERS[ut_i].user_type] =
             ClaimedStatus(USERS[ut_i], ut_error_text, ut_logged_in)
    /\ ut_pc = "done" =>
          /\ DOMAIN ut_results = FirstTypes(Len(USERS))
          /\ ut_assigned = Len(USERS)
          /\ (ut_outcome # "passed") <=> SomeFail

\* C25, amended: the results are those of the user types handled so far, in
\* the order of USERS, one assignment each, given by the rule above, and a
\* FAIL does not end the loop; when no exception left the test body all user
\* types are recorded and the test fails iff some user type was recorded
\* FAIL; an exception leaves the test inside the pass of one user type, with
\* the results of the user types before it only (and of that one when the
\* exception came from the print of its URL).
C25_AllTypesUnlessException ==
    /\ ut_assigned = Cardinality(DOMAIN ut_results)
    /\ ut_pc \in {"get", "close", "login", "error", "logged", "record"} =>
          DOMAIN ut_results = FirstTypes(ut_i - 1)
    /\ ut_pc \in {"loop", "url", "summary"} => DOMAIN ut_results = FirstTypes(ut_i)
    /\ ut_pc \in {"loop", "url", "summary"} /\ ut_i >= 1 =>
          ut_results[USERS[ut_i].user_type] =
             ClaimedStatus(USERS[ut_i], ut_error_text, ut_logged_in)
    /\ ut_pc = "done" /\ ut_outcome # "error" =>
          /\ DOMAIN ut_results = FirstTypes(Len(USERS))
          /\ ut_outcome \in {"passed", "failed"}
          /\ (ut_outcome = "failed") <=> SomeFail
    /\ ut_pc = "done" /\ ut_outcome = "error" =>
          /\ ut_i >= 1
          /\ DOMAIN ut_results \in {FirstTypes(ut_i - 1), FirstTypes(ut_i)}

\* the first user type was recorded FAIL, the loop went on to the last one,
\* which was recorded PASS, and the test failed
C25_Witness ==
    /\ ut_pc = "done"
    /\ ut_outcome = "failed"
    /\ DOMAIN ut_results = FirstTypes(Len(USERS))
    /\ ut_results["standard"] = "FAIL"
    /\ ut_results["locked"] = "PASS"
    /\ ut_results["visual"] = "PASS"

\* C26: a should_succeed case of test_login_scenarios passes whenever no
\* error message was read and is_logged_in saw the inventory page before its
\* wait ended, the URL the test compares with the inventory pattern being the
\* one of the page is_logged_in observed.
C26_PassesWhenLoggedIn ==
    (/\ tl_Checked
     /\ LOGIN_ERRORS[tl_case].should_succeed
     /\ tl_error_text = None
     /\ tl_logged_in)
    => /\ tl_outcome = "passed"
       /\ Contains(tl_current_url, inventory_page)

\* ------------------------------------------------ claims: BrowserKeywords

\* C27: through the keyword library at most one browser session exists at
\* any time, and it is the one the library holds; Open Browser To URL creates
\* a session only when it holds none, otherwise it sends the session it holds
\* to the URL; the URL it passes to driver.get is its argument, and base_url
\* when it has no argument.
C27_AtMostOneSession ==
    /\ Cardinality(bk_live) <= 1
    /\ bk_live \subseteq {bk_driver}
    /\ bk_last.kw = "open" =>
          /\ bk_last.created => bk_last.held = 0
          /\ bk_last.held # 0 =>
                /\ bk_driver = bk_last.held
                /\ bk_last.nav # None
          /\ bk_last.held = 0 /\ ~bk_last.created => bk_last.raised /\ bk_driver = 0
          /\ bk_last.nav # None =>
                bk_last.nav = IF bk_last.arg = None THEN base_url ELSE bk_last.arg
          /\ ~bk_last.raised => bk_url = bk_last.nav /\ bk_last.nav # None

\* a second session was created after the first was closed, and Open Browser
\* To URL without argument then sent it, the session held, to base_url
C27_Witness ==
    /\ bk_created = 2
    /\ bk_last.kw = "open"
    /\ bk_last.held = 2
    /\ bk_last.arg = None
    /\ ~bk_last.raised
    /\ bk_url = base_url
    /\ bk_live = {2}

\* C28: Close Browser quits the session held and clears the handle; with no
\* session held it does nothing and does not raise; an Open Browser To URL
\* that finds no handle creates a fresh session.
C28_CloseClearsHandle ==
    /\ bk_last.kw = "close" =>
          /\ bk_driver = 0
          /\ bk_last.held \notin bk_live
          /\ bk_last.held = 0 => ~bk_last.raised
    /\ bk_last.kw = "open" /\ bk_last.held = 0 /\ bk_last.created =>
          /\ bk_driver = bk_created
          /\ bk_driver \in bk_live

\* C29: whenever the library holds a driver, the session it refers to exists
\* and its current window is open.
C29_HeldSessionUsable ==
    bk_driver # 0 => Usable

\* ------------------------------------------------------- claims: fixtures

\* C4: every browser session the driver fixture created has been quit
\* (driver.quit was called) when the test is finished, whatever happened
\* after the creation.
C4_EverySessionQuit ==
    fx_pc = "finished" => fx_quits = fx_created

\* C15 as stated: a test that asks for logged_in_driver runs its body only
\* after is_logged_in returned True, and whenever logged_in_driver fails
\* without is_logged_in having returned True an AUTH_FAIL screenshot was
\* attempted.
C15_AuthFailOtherwise ==
    fx_test.uses_login =>
        /\ (fx_pc = "call" \/ rep_call # "absent") => fx_loggedIn = "true"
        /\ (fx_yielded /\ rep_setup = "failed" /\ fx_loggedIn # "true") =>
              \E s \in fx_shots : s.tag = "AUTH_FAIL"

\* C15 as amended: a test that asks for logged_in_driver runs its body only
\* after is_logged_in returned True; when is_logged_in returned False the
\* fixture has attempted an AUTH_FAIL screenshot on the open session and the
\* setup has failed; when a driver command of the navigation, of login or of
\* is_logged_in raised, the setup has failed with no AUTH_FAIL screenshot; the
\* body never runs after a failed setup.
C15_AuthFailOnFalse ==
    fx_test.uses_login =>
        /\ (fx_pc = "call" \/ rep_call # "absent") => fx_loggedIn = "true"
        /\ (rep_setup = "failed" /\ fx_loggedIn = "false") =>
              \E s \in fx_shots :
                  /\ s.tag = "AUTH_FAIL" /\ s.by = "logged_in_driver"
                  /\ s.session = "open" /\ s.taken
        /\ (\E s \in fx_shots : s.tag = "AUTH_FAIL") =>
              (fx_loggedIn = "false" /\ rep_setup = "failed")
        /\ fx_loggedIn \in {"false", "raised"} =>
              (fx_pc # "call" /\ rep_call = "absent")
        /\ rep_setup = "failed" => rep_call = "absent"

\* is_logged_in returned False: the AUTH_FAIL screenshot was attempted, the
\* setup failed and the test is over without its body having run
C15_Witness ==
    /\ fx_test.uses_login
    /\ fx_pc = "finished"
    /\ fx_loggedIn = "false"
    /\ \E s \in fx_shots : s.tag = "AUTH_FAIL"
    /\ rep_setup = "failed"
    /\ rep_call = "absent"

\* C16: auto_screenshot_on_failure catches all failure types: when the test
\* is over, a failed setup phase has triggered a SETUP_FAIL screenshot attempt
\* and a failed teardown phase a TEARDOWN_FAIL screenshot attempt.
C16_AllFailuresCaught ==
    fx_pc = "finished" =>
        /\ rep_setup = "failed" =>
              \E s \in fx_shots :
                  s.tag = "SETUP_FAIL" /\ s.by = "auto_screenshot_on_failure"
        /\ rep_teardown = "failed" =>
              \E s \in fx_shots :
                  s.tag = "TEARDOWN_FAIL" /\ s.by = "auto_screenshot_on_failure"

\* C17: in the teardown of the driver fixture a FAIL screenshot is attempted
\* exactly when the call phase failed, and the attempt is made while the
\* session is open, before driver.quit.
C17_FailShotBeforeQuit ==
    /\ \A s \in fx_shots :
          s.by = "driver" =>
              /\ s.tag = "FAIL" /\ s.taken
              /\ s.session = "open"
              /\ rep_call = "failed"
    /\ fx_pc \in {"td_current_url", "td_title", "td_quit", "auto", "td_end",
                  "finished"} =>
          ((\E s \in fx_shots : s.by = "driver" /\ s.tag = "FAIL")
              <=> rep_call = "failed")

\* the call phase failed, the FAIL screenshot was attempted on the open
\* session and the session has been quit since
C17_Witness ==
    /\ fx_pc = "finished"
    /\ rep_call = "failed"
    /\ fx_session = "quit"
    /\ \E s \in fx_shots : s.by = "driver" /\ s.session = "open"

\* C18: for a test whose call phase failed the fixtures attempt exactly one
\* failure screenshot, the FAIL screenshot of the driver fixture teardown;
\* auto_screenshot_on_failure attempts none, whatever the teardown report is.
C18_OneShotPerCallFailure ==
    (fx_pc = "finished" /\ rep_call = "failed") =>
        /\ Cardinality(fx_shots) = 1
        /\ \A s \in fx_shots : s.by = "driver" /\ s.tag = "FAIL"

\* the call phase and the teardown phase have both failed, one screenshot
C18_Witness ==
    /\ fx_pc = "finished"
    /\ rep_call = "failed"
    /\ rep_teardown = "failed"
    /\ Cardinality(fx_shots) = 1

\* the WebDriver initialisations among the setup steps of the driver fixture
Inits == SelectSeq(fx_steps, LAMBDA st : st.how \in {"auto", "system"})

\* the shape of the initialisation: at most two attempts, the automatically
\* managed driver first, the system driver only after the first failed; when
\* both failed the setup has failed, the body does not run, and the driver
\* fixture attempts neither a screenshot nor a quit
InitShape ==
    /\ Len(Inits) <= 2
    /\ Len(Inits) >= 1 => Inits[1].how = "auto"
    /\ Len(Inits) = 2 => (~Inits[1].ok /\ Inits[2].how = "system")
    /\ fx_yielded => \E k \in 1..Len(Inits) : Inits[k].ok
    /\ (Len(Inits) = 2 /\ ~Inits[2].ok) =>
          /\ rep_setup = "failed" /\ rep_call = "absent"
          /\ ~fx_yielded /\ fx_session = "none" /\ fx_pc # "call"
          /\ \A s \in fx_shots : s.by # "driver" /\ ~s.taken

\* C19 as stated: the shape above, and the fixture yields a driver exactly
\* when one of the two initialisations succeeded.
C19_YieldsIffInitialised ==
    /\ InitShape
    /\ fx_pc = "finished" =>
          (fx_yielded <=> \E k \in 1..Len(Inits) : Inits[k].ok)

\* C19 as amended: the shape above, and the fixture yields a driver exactly
\* when one of the two initialisations succeeded and neither implicitly_wait
\* nor maximize_window raised afterwards.
C19_YieldsIffConfigured ==
    /\ InitShape
    /\ fx_pc = "finished" =>
          (fx_yielded <=> /\ \E k \in 1..Len(Inits) : Inits[k].ok
                          /\ \A k \in 1..Len(fx_steps) : fx_steps[k].ok
                                 \/ fx_steps[k].how \in {"auto", "system"})

\* both initialisations failed and the test is over
C19_Witness ==
    /\ fx_pc = "finished"
    /\ Len(Inits) = 2
    /\ ~Inits[2].ok
    /\ rep_setup = "failed"

\* ---------------------------------------------------------- claims: waits

\* the timeout the caller asked for, in ticks: the argument, or the configured
\* default of the helper
RequestedTicks ==
    TicksPerSecond *
       (IF w_arg # NoArg THEN w_arg[1]
        ELSE IF w_helper = "is_logged_in" THEN explicit_wait_long
        ELSE explicit_wait_short)

\* C5: if the predicate never becomes true, a wait (wait_for_element,
\* is_element_present, is_logged_in, get_error_message) reports its timeout
\* only when at least the timeout T has elapsed since the wait started.
C5_NoEarlyTimeout ==
    w_until.kind = "timeout" => w_elapsed >= RequestedTicks

\* is_logged_in, called without a timeout, has timed out
C5_Witness ==
    /\ w_until.kind = "timeout"
    /\ w_helper = "is_logged_in"
    /\ w_arg = NoArg
    /\ w_pc = "done"

\* C6: a wait never lasts longer than its timeout T plus one poll interval,
\* whether or not the predicate becomes true, the implicit wait of the driver
\* fixture being active.
C6_BoundedWait ==
    w_elapsed <= RequestedTicks + 1

\* C7: when the predicate is observed true, the wait ends at that poll: the
\* predicate is not evaluated again and no time passes, and wait_for_element
\* returns the element that evaluation located, even if the page has changed
\* since.
C7_FirstSuccessWins ==
    (w_pc = "done" /\ w_until.kind = "value") =>
        /\ w_evals = w_found.evals
        /\ w_elapsed = w_found.elapsed
        /\ w_helper = "wait_for_element" => w_result = Return(w_found.value)

\* wait_for_element has returned the element that appeared while it waited,
\* and the page no longer shows that element
C7_Witness ==
    /\ w_pc = "done"
    /\ w_helper = "wait_for_element"
    /\ w_until.kind = "value"
    /\ w_found.elapsed >= 1
    /\ page # w_found.value
    /\ w_result = Return(w_found.value)

C8_NoDriverException ==
    u_result.kind # "raise"

====
